---- MODULE Spec2Model ----
(***************************************************************************)
(* A model of the pasito.fun event scripts: the batch driver that scrapes  *)
(* event pages and publishes them (src/create_fb_event.py), the browser    *)
(* page fetcher and the venue address resolver                             *)
(* (src/pasito_event_scraper.py) and the validating event processor        *)
(* (src/pasito_event_scripts/event_processor.py).                          *)
(*                                                                         *)
(* Python values are modelled as follows.  An optional value (None or a    *)
(* value) is a sequence of length 0 or 1.  A clock time is a number of     *)
(* minutes after midnight, a date is a day number, a local or absolute     *)
(* date-time is a number of minutes.  A duration in hours is kept in       *)
(* minutes.  A string whose content matters only through emptiness,        *)
(* stripping and a few substrings is a TLA+ string taken from a small      *)
(* alphabet.  Every run executes one entry point, chosen by prog.          *)
(***************************************************************************)
EXTENDS Integers, Sequences, FiniteSets, TLC

VARIABLES
    prog,               \* the entry point this run executes
    pc,                 \* position of the entry point's control
    args,               \* arguments of the function under execution
    result,             \* its outcome: the value returned or the exception raised
    preview,            \* main: args.preview
    unique_event_ids,   \* main: the deduplicated batch
    idx,                \* a main: position of its for loop
    attempted,          \* main: event IDs whose loop body has started
    scraped_data,       \* a main: what scrape_pasito_event returned
    final_payload,      \* main: the payload built from the scraped data and the
                        \* dict get_event_details_from_user returned
    posted,             \* main: IDs of the events whose payload was posted, in order
    previewed,          \* main: IDs of the events whose payload was printed, in order
    cover,              \* main: what became of --cover: "no_upload", "uploaded",
                        \* "upload_failed", "file_missing" or "upload_crashed"
    raised,             \* main: the exception that escaped main ("none" if none)
    driver,             \* the browser session of the function that owns one:
                        \* "none", "live" or "quit"
    trace               \* the calls that function has made, in order

vars == <<prog, pc, args, result, preview, unique_event_ids, idx, attempted, scraped_data,
          final_payload, posted, previewed, cover, raised, driver, trace>>

(***************************************************************************)
(* Optional values.                                                        *)
(***************************************************************************)
NoneVal == <<>>
Some(x) == <<x>>
IsNone(o) == Len(o) = 0
Val(o) == o[1]

(***************************************************************************)
(* Clock-time tokens as the time regex of scrape_pasito_event captures     *)
(* them: \d{1,2}:\d{2}\s*[AP]M.  sp is the number of blanks before the     *)
(* meridiem, which the regex allows to be zero.                            *)
(***************************************************************************)
Tok(h, m, ap, sp) == [h |-> h, m |-> m, ap |-> ap, sp |-> sp]

TimeTokens ==
    { Tok(12, 30, "AM", 1), Tok(12, 0, "PM", 1), Tok(6, 30, "PM", 1),
      Tok(11, 0, "PM", 1), Tok(13, 0, "PM", 1), Tok(7, 0, "PM", 0) }

MinutesPerDay == 1440

\* datetime.strptime(s, "%I:%M %p") accepts the token: %I is 1..12, %M is
\* 0..59 and the blank of the format stands for at least one blank.
WellFormedTime(t) == t.h \in 1..12 /\ t.m \in 0..59 /\ t.sp >= 1

\* The clock time strptime returns, in minutes after midnight (12 AM is 0:xx,
\* 12 PM is 12:xx).
StrpTime(t) == ((t.h % 12) + (IF t.ap = "PM" THEN 12 ELSE 0)) * 60 + t.m

\* end_time_obj with a rollover that is never applied.
OvernightEnd_NoRollover(start, end) == end

\* if end_time_obj < start_time_obj: end_time_obj += timedelta(days=1)
OvernightEnd(start, end) == IF end < start THEN end + MinutesPerDay ELSE end

(***************************************************************************)
(* Dates.  A scraped date is a month abbreviation and a day of month; the  *)
(* operator types a date as YYYY-MM-DD.  Day numbers count from 1 January  *)
(* 2000; the years of the model are not leap years.                        *)
(***************************************************************************)
MonthNames == <<"Jan", "Feb", "Mar", "Apr", "May", "Jun",
                "Jul", "Aug", "Sep", "Oct", "Nov", "Dec">>
DaysInMonth == <<31, 28, 31, 30, 31, 30, 31, 31, 30, 31, 30, 31>>

RECURSIVE DaysBefore(_)
DaysBefore(m) == IF m <= 1 THEN 0 ELSE DaysBefore(m - 1) + DaysInMonth[m - 1]

MonthNumber(name) ==
    IF \E i \in 1..12 : MonthNames[i] = name
    THEN CHOOSE i \in 1..12 : MonthNames[i] = name
    ELSE 0

ValidYMD(y, m, d) == m \in 1..12 /\ d >= 1 /\ d <= DaysInMonth[m]

DayNumber(y, m, d) == (y - 2000) * 365 + DaysBefore(m) + d

\* strptime(f"{scraped_date} {current_year}", "%b %d %Y"): the parsed date, or
\* None when strptime raises ValueError.
ParseScrapedDate(sd, year) ==
    LET m == MonthNumber(sd.mon)
    IN  IF m # 0 /\ ValidYMD(year, m, sd.day)
        THEN Some(DayNumber(year, m, sd.day))
        ELSE NoneVal

\* What the operator types at a date prompt.
Blank == [kind |-> "blank", y |-> 0, m |-> 0, d |-> 0]
Junk == [kind |-> "junk", y |-> 0, m |-> 0, d |-> 0]
YMD(y, m, d) == [kind |-> "ymd", y |-> y, m |-> m, d |-> d]

\* datetime.strptime(start_date_str, "%Y-%m-%d"): the parsed date, or None when
\* strptime raises ValueError (a blank or malformed string, or no such day).
ParseDateStr(s) ==
    IF s.kind = "ymd" /\ ValidYMD(s.y, s.m, s.d)
    THEN Some(DayNumber(s.y, s.m, s.d))
    ELSE NoneVal

(***************************************************************************)
(* Time zones.  pytz.timezone raises UnknownTimeZoneError for a name it    *)
(* does not know; tz.localize gives the zone's offset at the local time.   *)
(***************************************************************************)
DefaultZone == "America/Denver"
KnownZones == {"America/Denver", "UTC", "Asia/Tokyo"}

\* America/Denver has daylight saving from day 68 to day 305 of the year
\* (9 March to 1 November 2025).
UtcOffset(zone, localMinutes) ==
    LET doy == ((localMinutes \div MinutesPerDay) % 365)
    IN  CASE zone = "UTC" -> 0
          [] zone = "Asia/Tokyo" -> 540
          [] OTHER -> IF doy >= 68 /\ doy <= 305 THEN -360 ELSE -420

(***************************************************************************)
(* Locations.  A location dict holds is_online and place; a payload may    *)
(* lack the place key (an empty optional).                                 *)
(***************************************************************************)
Place(name, street, city, state, zip) ==
    [name |-> name, street |-> street, city |-> city, state |-> state,
     zip |-> zip, country |-> "US"]

Location(online, place) == [is_online |-> online, place |-> place]

(***************************************************************************)
(* get_event_details_from_user (src/create_fb_event.py).  loc, time and    *)
(* date are the scraped values (optional; time is <<>> or a pair of        *)
(* tokens); inp holds what the operator types at each prompt and the       *)
(* calendar year of the run.  The outcome records the exception that       *)
(* escaped, the prompts issued, the returned dict and the locals the       *)
(* claims speak of.                                                        *)
(***************************************************************************)
GetEventDetails(loc, time, date, inp) ==
    LET hasTime == Len(time) = 2
        startOk == hasTime /\ WellFormedTime(time[1])
        bothOk == startOk /\ WellFormedTime(time[2])
        start_time_obj == IF startOk THEN Some(StrpTime(time[1])) ELSE NoneVal
        end_time_obj ==
            IF bothOk THEN Some(OvernightEnd(StrpTime(time[1]), StrpTime(time[2])))
            ELSE NoneVal
        scrapedDuration ==
            IF bothOk THEN Some(Val(end_time_obj) - Val(start_time_obj)) ELSE NoneVal
        \* the date prompts
        hasDate == ~IsNone(date)
        acceptFound == hasDate /\ inp.date_found_reply.kind = "blank"
        converted == IF acceptFound THEN ParseScrapedDate(Val(date), inp.year) ELSE NoneVal
        askPlainDate == ~hasDate \/ (acceptFound /\ IsNone(converted))
        start_date_str ==
            IF askPlainDate THEN inp.date_reply
            ELSE IF acceptFound
                 THEN LET sd == Val(date)
                      IN  YMD(inp.year, MonthNumber(sd.mon), sd.day)
                 ELSE inp.date_found_reply
        \* the start time and duration prompts
        askStart == IsNone(start_time_obj)
        askDuration == IsNone(scrapedDuration) \/ Val(scrapedDuration) = 0
        durationRaises == askDuration /\ IsNone(inp.duration)
        duration == IF askDuration THEN inp.duration ELSE scrapedDuration
        \* the zone
        timezone_str == IF inp.timezone = "" THEN DefaultZone ELSE inp.timezone
        tz == IF timezone_str \in KnownZones THEN timezone_str ELSE DefaultZone
        start_date_obj == ParseDateStr(start_date_str)
        dateRaises == IsNone(start_date_obj)
        final_start_time == IF askStart THEN inp.start_time ELSE start_time_obj
        startRaises == IsNone(final_start_time)
        at == CASE durationRaises -> "duration"
                [] dateRaises -> "date"
                [] startRaises -> "start_time"
                [] OTHER -> "none"
        ok == at = "none"
        start_datetime_local ==
            IF ok THEN Val(start_date_obj) * MinutesPerDay + Val(final_start_time) ELSE 0
        end_datetime_local == IF ok THEN start_datetime_local + Val(duration) ELSE 0
        offset == UtcOffset(tz, start_datetime_local)
        \* the location prompts
        askLocation == ok /\ IsNone(loc)
        is_online == IF IsNone(loc) THEN inp.is_online ELSE Val(loc).is_online
        place ==
            IF ~IsNone(loc) THEN Val(loc).place
            ELSE IF inp.is_online THEN NoneVal
                 ELSE Some(Place(inp.venue, inp.street, inp.city, inp.state, inp.zip))
        prompts ==
            (IF hasDate THEN {"date_found"} ELSE {})
            \cup (IF askPlainDate THEN {"date"} ELSE {})
            \cup (IF askStart THEN {"start_time"} ELSE {})
            \cup (IF askDuration THEN {"duration"} ELSE {})
            \cup (IF ~durationRaises THEN {"timezone"} ELSE {})
            \cup (IF askLocation THEN {"is_online"} ELSE {})
            \cup (IF askLocation /\ ~inp.is_online THEN {"venue"} ELSE {})
    IN  [ raised |-> IF ok THEN "none" ELSE "ValueError",
          at |-> at,
          prompts |-> prompts,
          start_time |-> IF ok THEN start_datetime_local - offset ELSE 0,
          end_time |-> IF ok THEN end_datetime_local - offset ELSE 0,
          event_time_zone |-> timezone_str,
          is_online |-> is_online,
          place |-> IF ok THEN place ELSE NoneVal,
          tz |-> tz,
          start_time_obj |-> start_time_obj,
          end_time_obj |-> end_time_obj,
          start_datetime_local |-> start_datetime_local,
          end_datetime_local |-> end_datetime_local ]

(***************************************************************************)
(* Visible lines of an event page (page_text.split('\n')).  Clock stands   *)
(* for a line that is exactly the time emoji, ClockText for a line that    *)
(* holds the emoji followed by the date and the time range.                *)
(***************************************************************************)
Clock == "<clock>"
ClockText == "<clock> Fri, Jun 6 7:00 PM - 11:00 PM"

LineAlphabet ==
    {"", "   ", "Salsa Night", "Join us", Clock, ClockText, "Organizer", "Boulder, CO",
     "Salsa Social, CO"}

\* str.strip()
Strip(l) ==
    CASE l = "   " -> ""
      [] l = " Salsa Night " -> "Salsa Night"
      [] l = " Join us " -> "Join us"
      [] OTHER -> l

\* '<emoji>' in line
ContainsClock(l) == l \in {Clock, ClockText}

\* line.lower() == 'organizer' or line.lower() == 'series'
IsSectionLabel(l) == l \in {"Organizer", "Series"}

\* The in-page title of scrape_pasito_event: the first stripped non-empty line
\* one of whose next two lines is exactly the emoji; None when there is none.
EventTitleInPage(lines) ==
    LET n == Len(lines)
        hit(i) == /\ i + 1 <= n
                  /\ Strip(lines[i]) # ""
                  /\ \E j \in {i + 1, i + 2} : j <= n /\ lines[j] = Clock
    IN  IF \E i \in 1..n : hit(i)
        THEN Some(Strip(lines[CHOOSE i \in 1..n : hit(i) /\ \A k \in 1..(i - 1) : ~hit(k)]))
        ELSE NoneVal

\* The description loop of scrape_pasito_event: the stripped non-empty lines up
\* to the first line that holds the emoji, is a section label or is the in-page
\* title.
RECURSIVE DescLines(_, _)
DescLines(lines, title) ==
    IF Len(lines) = 0 THEN <<>>
    ELSE LET line == Strip(Head(lines))
         IN  IF line = "" THEN DescLines(Tail(lines), title)
             ELSE IF ContainsClock(line) \/ IsSectionLabel(line) THEN <<>>
             ELSE IF ~IsNone(title) /\ line = Val(title) THEN <<>>
             ELSE <<line>> \o DescLines(Tail(lines), title)

\* re.match(r'^([A-Za-z\s]+),\s*([A-Z]{2})$', line): the groups, or <<>>.
CityState(l) ==
    CASE l = "Boulder, CO" -> <<"Boulder", "CO">>
      [] l = "Salsa Social, CO" -> <<"Salsa Social", "CO">>
      [] OTHER -> <<>>

\* any(word in city.lower() for word in ['series', 'organizer', 'social'])
Disqualified(city) == city \in {"Salsa Social"}

\* f"{location_city}, {location_state}"
CityStateLabel(city, state) ==
    CASE city = "Boulder" /\ state = "CO" -> "Boulder, CO"
      [] city = "Salsa Social" /\ state = "CO" -> "Salsa Social, CO"
      [] OTHER -> ", "

\* The dict extract_location_from_text builds from a "City, ST" line.
TextLocation(city, state) ==
    Location(FALSE, Some(Place(CityStateLabel(city, state), "", city, state, "")))

\* extract_location_from_text: the first line that matches the city/state
\* pattern with a city that is not disqualified.
RECURSIVE ExtractLocationFromText(_)
ExtractLocationFromText(lines) ==
    IF Len(lines) = 0 THEN NoneVal
    ELSE LET cs == CityState(Strip(Head(lines)))
         IN  IF Len(cs) = 2 /\ ~Disqualified(cs[1])
             THEN Some(TextLocation(cs[1], cs[2]))
             ELSE ExtractLocationFromText(Tail(lines))

(***************************************************************************)
(* scrape_pasito_event of src/create_fb_event.py (the version main calls). *)
(* A page is the outcome of the GET, the text of the title tag (None: no   *)
(* title tag), the visible lines, and what the time and date regexes       *)
(* capture.  The description is kept as the list of joined lines.          *)
(***************************************************************************)
ScrapePasitoEvent(page) ==
    IF page.fetch # "ok" THEN NoneVal
    ELSE LET title == EventTitleInPage(page.lines)
             desc == DescLines(page.lines, title)
         IN  Some([ name |-> IF ~IsNone(title) THEN Val(title)
                             ELSE IF IsNone(page.title) THEN "" ELSE Val(page.title),
                    description |-> desc,
                    cover_url |-> page.cover_url,
                    scraped_time |-> page.time,
                    scraped_date |-> page.date,
                    location_details |-> ExtractLocationFromText(page.lines) ])

(***************************************************************************)
(* translate_description.  how is what the translation service does:       *)
(* detect the language as English, detect another language and translate,  *)
(* or fail at detection or at translation.                                 *)
(***************************************************************************)
TranslatorOutcomes == {"english", "translated", "detect_fails", "translate_fails"}

Translated(text) == <<"(in English)">> \o text

\* translate_description without the fallback to the original text
TranslateDescription_NoFallback(text, how) ==
    IF how \in {"translated", "english"} /\ Len(text) > 0
    THEN (IF how = "translated" THEN Translated(text) ELSE text)
    ELSE <<>>

TranslateDescription(text, how) ==
    IF Len(text) = 0 THEN <<>>
    ELSE IF how = "translated" THEN Translated(text)
    ELSE text

(***************************************************************************)
(* create_facebook_event of src/create_fb_event.py.  how is what the POST  *)
(* does: succeed, answer with an HTTP error status, fail with no response  *)
(* at all (connection error, timeout), or answer 200 with a body that has  *)
(* no id.  The outcome says whether a request was sent, what is returned   *)
(* and which exception escapes.                                            *)
(***************************************************************************)
PostOutcomes == {"ok", "http_error", "no_response", "no_id"}

CreateFacebookEvent(credentials, how) ==
    IF ~credentials THEN [sent |-> FALSE, returned |-> "None", raised |-> "none"]
    ELSE CASE how = "ok" -> [sent |-> TRUE, returned |-> "result", raised |-> "none"]
           [] how = "http_error" ->
                [sent |-> TRUE, returned |-> "None", raised |-> "none"]
           [] how = "no_response" ->
                \* e.response is None: e.response.status_code raises in the handler
                [sent |-> TRUE, returned |-> "None", raised |-> "AttributeError"]
           [] OTHER ->
                \* result['id'] raises KeyError, which the except clause does not catch
                [sent |-> TRUE, returned |-> "None", raised |-> "KeyError"]

(***************************************************************************)
(* The inputs of the model: what a page yields and what the operator       *)
(* types.                                                                  *)
(***************************************************************************)
ScrapedTimes == {<<>>} \cup {<<a, b>> : a, b \in TimeTokens}

ScrapedDates ==
    { NoneVal, Some([mon |-> "Jun", day |-> 6]), Some([mon |-> "Dec", day |-> 31]),
      Some([mon |-> "Foo", day |-> 6]) }

ScrapedLocations == {NoneVal, Some(TextLocation("Boulder", "CO"))}

OperatorInputs ==
    [ year : {2025},
      date_found_reply : {Blank, YMD(2025, 6, 6), Junk},
      date_reply : {YMD(2025, 11, 1), Junk},
      start_time : {Some(19 * 60), NoneVal},
      duration : {Some(150), Some(0), Some(-60), NoneVal},
      timezone : {"", "UTC", "Mars/Phobos"},
      is_online : BOOLEAN,
      venue : {"", "The Hall"},
      street : {"100 Main St"},
      city : {"Boulder"},
      state : {"CO"},
      zip : {"80301"} ]

(***************************************************************************)
(* The batches and pages main of src/create_fb_event.py is run on.         *)
(***************************************************************************)
EventIds == {"e1", "e2", "e3"}
MaxBatch == 3
MaxEvents == 2

RECURSIVE SeqsUpTo(_, _)
SeqsUpTo(S, n) ==
    IF n = 0 THEN {<<>>}
    ELSE LET shorter == SeqsUpTo(S, n - 1)
         IN  shorter \cup {Append(q, x) : q \in shorter, x \in S}

\* list(dict.fromkeys(all_event_ids)): first occurrences, in order.
RECURSIVE Dedup(_, _)
Dedup(ids, seen) ==
    IF Len(ids) = 0 THEN <<>>
    ELSE IF Head(ids) \in seen THEN Dedup(Tail(ids), seen)
    ELSE <<Head(ids)>> \o Dedup(Tail(ids), seen \cup {Head(ids)})

PageLines ==
    { <<>>,
      <<"Join us", "Salsa Night", Clock>>,
      <<"Join us", ClockText, "Boulder, CO">> }

Pages ==
    [ fetch : {"ok"},
      title : {NoneVal, Some(""), Some("Friday Night Social")},
      lines : PageLines,
      cover_url : {""},
      time : {<<>>, <<Tok(6, 30, "PM", 1), Tok(12, 30, "AM", 1)>>,
              <<Tok(6, 30, "PM", 1), Tok(6, 30, "PM", 1)>>},
      date : {NoneVal, Some([mon |-> "Jun", day |-> 6])} ]
    \cup
    [ fetch : {"RequestException"}, title : {NoneVal}, lines : {<<>>},
      cover_url : {""}, time : {<<>>}, date : {NoneVal} ]

\* What the operator types while a batch runs.
BatchInputs ==
    [ year : {2025},
      date_found_reply : {Blank, Junk},
      date_reply : {YMD(2025, 11, 1)},
      start_time : {Some(19 * 60)},
      duration : {Some(150), Some(0), NoneVal},
      timezone : {""},
      is_online : BOOLEAN,
      venue : {"", "The Hall"},
      street : {"100 Main St"},
      city : {"Boulder"},
      state : {"CO"},
      zip : {"80301"} ]

(***************************************************************************)
(* scrape_address_from_location_page (src/pasito_event_scraper.py).  A     *)
(* venue page is what get_page_content_with_browser did (a page, the pair  *)
(* (None, None), or the exception of driver.quit()) and what the page      *)
(* holds: the title and h1 texts, whether the Address heading is there and *)
(* its following siblings, the p tags of the address tag, and what the raw *)
(* and the generic address regexes capture.                                *)
(***************************************************************************)
SafetyLimit == 10

Elem(name, text) == [name |-> name, text |-> text]

VenueLineAlphabet ==
    {"", "123 Main Street", "45 Pearl St", "Boulder, CO 80302", "Boulder, CO", "Open daily"}

\* re.search(r'\d+.*(?:street|avenue|ave|road|rd|...|unit|#)', line, re.IGNORECASE)
IsStreetLine(line) == line \in {"123 Main Street"}

\* re.search(r'^[A-Za-z\s]+,\s*[A-Z]{2}\s*\d{5}', line)
IsCityStateZipLine(line) == line \in {"Boulder, CO 80302"}

\* line.split(','), then the state and the zip out of the second part.
SplitCityStateZip(line) ==
    CASE line = "Boulder, CO 80302" -> [city |-> "Boulder", state |-> "CO", zip |-> "80302"]
      [] OTHER -> [city |-> "", state |-> "", zip |-> ""]

NoAddress == [street |-> "", city |-> "", state |-> "", zip |-> ""]
Captured(street, city, state, zip) ==
    [street |-> street, city |-> city, state |-> state, zip |-> zip]

\* Lines 188-214: the texts of the siblings after the Address heading.  The
\* text of an element is appended before the element is tested for being a
\* heading; the walk stops once more than SafetyLimit texts are collected.
RECURSIVE AddressContent(_, _)
AddressContent(siblings, address_content) ==
    IF Len(siblings) = 0 THEN address_content
    ELSE LET current_element == Head(siblings)
             collected == IF current_element.text # ""
                          THEN Append(address_content, current_element.text)
                          ELSE address_content
         IN  IF current_element.name \in {"h1", "h2", "h3", "h4", "h5", "h6"}
             THEN collected
             ELSE IF Len(collected) > SafetyLimit THEN collected
             ELSE AddressContent(Tail(siblings), collected)

\* Lines 219-233 and 244-256: the street / city-state-zip loop; a later line
\* of a kind overwrites an earlier one.
RECURSIVE ParseAddressLines(_, _)
ParseAddressLines(lines, found) ==
    IF Len(lines) = 0 THEN found
    ELSE LET line == Head(lines)
             csz == SplitCityStateZip(line)
             next == IF IsStreetLine(line) THEN [found EXCEPT !.street = line]
                     ELSE IF IsCityStateZipLine(line)
                     THEN [found EXCEPT !.city = csz.city, !.state = csz.state,
                                        !.zip = csz.zip]
                     ELSE found
         IN  ParseAddressLines(Tail(lines), next)

Ran(strategy, found) == [strategy |-> strategy, found |-> found]

\* The strategies with the raw-document regex run whatever was found before.
AddressStrategies_Ungated(page) ==
    LET underHeading ==
            ParseAddressLines(IF page.address_heading
                              THEN AddressContent(page.siblings, <<>>) ELSE <<>>,
                              NoAddress)
    IN  <<Ran("heading", underHeading),
          Ran("raw_regex", IF ~IsNone(page.raw_match) THEN Val(page.raw_match)
                           ELSE underHeading)>>

\* Lines 235-292: what runs after the heading lookup left underHeading and
\* the address tag would leave inAddressTag.
FallbackStrategies(underHeading, inAddressTag, page) ==
    IF underHeading.street # "" THEN <<Ran("heading", underHeading)>>
    ELSE IF inAddressTag.street # ""
    THEN <<Ran("heading", underHeading), Ran("address_tag", inAddressTag)>>
    ELSE IF ~IsNone(page.raw_match)
    THEN <<Ran("heading", underHeading), Ran("address_tag", inAddressTag),
           Ran("raw_regex", Val(page.raw_match))>>
    ELSE <<Ran("heading", underHeading), Ran("address_tag", inAddressTag),
           Ran("raw_regex", inAddressTag),
           Ran("visible_text_regex", IF ~IsNone(page.generic_match)
                                     THEN Val(page.generic_match) ELSE inAddressTag)>>

\* Lines 179-292: the strategies that run, in the order they run, each with
\* street, city, state and zip as they are after it: the Address heading,
\* then, while the street is empty, the address tag, the regex on the raw
\* HTML and, when that regex matched nothing, the regex on the visible text.
AddressStrategies(page) ==
    FallbackStrategies(
        ParseAddressLines(IF page.address_heading
                          THEN AddressContent(page.siblings, <<>>) ELSE <<>>,
                          NoAddress),
        ParseAddressLines(page.address_p,
            ParseAddressLines(IF page.address_heading
                              THEN AddressContent(page.siblings, <<>>) ELSE <<>>,
                              NoAddress)),
        page)

\* Lines 171-178: the venue name: the link label, else the title text, else
\* (only without a title tag) the h1 text.
VenueName(venue_name_from_link, page) ==
    IF ~IsNone(venue_name_from_link) /\ Val(venue_name_from_link) # ""
    THEN venue_name_from_link
    ELSE IF ~IsNone(page.title) THEN page.title
    ELSE IF ~IsNone(page.h1) THEN page.h1
    ELSE venue_name_from_link

\* scrape_address_from_location_page returning whatever was recovered
ScrapeAddressFromLocationPage_Partial(location_url, venue_name_from_link, page) ==
    LET strategies == AddressStrategies(page)
        found == strategies[Len(strategies)].found
    IN  [raised |-> "none",
         value |-> Some(Location(FALSE, Some(Place("Venue", found.street, found.city,
                                                   found.state, found.zip)))),
         address_content |-> <<>>,
         strategies |-> strategies,
         found |-> found,
         venue_name |-> VenueName(venue_name_from_link, page)]

\* scrape_address_from_location_page, lines 141-339.
ScrapeAddressFromLocationPage(location_url, venue_name_from_link, page) ==
    LET nothing == [raised |-> "none", value |-> NoneVal, address_content |-> <<>>,
                    strategies |-> <<>>,
                    found |-> NoAddress, venue_name |-> venue_name_from_link]
        venue_name == VenueName(venue_name_from_link, page)
        named == ~IsNone(venue_name) /\ Val(venue_name) # ""
        address_content == IF page.address_heading
                           THEN AddressContent(page.siblings, <<>>) ELSE <<>>
        strategies == AddressStrategies(page)
        found == strategies[Len(strategies)].found
        complete == found.street # "" /\ found.city # "" /\ found.state # ""
        place == IF complete
                 THEN Some(Place(IF named THEN Val(venue_name) ELSE "Venue",
                                 found.street, found.city, found.state, found.zip))
                 ELSE IF named THEN Some(Place(Val(venue_name), "", "", "", ""))
                 ELSE NoneVal
    IN  IF IsNone(location_url) \/ Val(location_url) = "" THEN nothing
        ELSE IF page.fetch \notin {"ok", "none"} THEN [nothing EXCEPT !.raised = page.fetch]
        ELSE IF page.fetch = "none" THEN nothing
        ELSE [raised |-> "none",
              value |-> IF IsNone(place) THEN NoneVal ELSE Some(Location(FALSE, place)),
              address_content |-> address_content,
              strategies |-> strategies,
              found |-> found,
              venue_name |-> venue_name]

VenueUrl == "https://pasito.fun/l/the-hall"

ManySiblings == [i \in 1..(SafetyLimit + 2) |-> Elem("p", "Open daily")]

SiblingLists ==
    { <<>>,
      <<Elem("p", "123 Main Street"), Elem("#text", ""), Elem("p", "Boulder, CO 80302")>>,
      <<Elem("p", "45 Pearl St"), Elem("p", "Boulder, CO 80302")>>,
      <<Elem("p", "Open daily"), Elem("h4", "123 Main Street"), Elem("p", "Boulder, CO 80302")>>,
      ManySiblings \o <<Elem("p", "123 Main Street")>> }

UnloadedPage(fetch) ==
    [fetch |-> fetch, title |-> NoneVal, h1 |-> NoneVal, address_heading |-> FALSE,
     siblings |-> <<>>, address_p |-> <<>>, raw_match |-> NoneVal, generic_match |-> NoneVal]

VenuePages ==
    [fetch : {"ok"},
     title : {NoneVal, Some(""), Some("The Hall | Pasito")},
     h1 : {NoneVal, Some("The Hall")},
     address_heading : {TRUE},
     siblings : SiblingLists,
     address_p : {<<>>, <<"123 Main Street">>, <<"Boulder, CO 80302">>},
     raw_match : {NoneVal, Some(Captured("45 Pearl St", "Boulder", "CO", "80302"))},
     generic_match : {NoneVal, Some(Captured("7 Elm", "Denver", "CO", "80202"))}]
    \cup
    [fetch : {"ok"},
     title : {NoneVal, Some("The Hall | Pasito")},
     h1 : {NoneVal},
     address_heading : {FALSE},
     siblings : {<<>>},
     address_p : {<<>>, <<"123 Main Street", "Boulder, CO 80302">>},
     raw_match : {NoneVal},
     generic_match : {NoneVal, Some(Captured("7 Elm", "Denver", "CO", "80202"))}]
    \cup {UnloadedPage("none"), UnloadedPage("WebDriverException")}

LinkLabels == {NoneVal, Some(""), Some("The Hall")}

(***************************************************************************)
(* Venue links.  A link is the href and the label of an anchor.            *)
(***************************************************************************)
Link(href, text) == [href |-> href, text |-> text]

RelativeVenueHref == "/l/the-hall"
OrganizerHref == "/u/salsa-club"
OrganizerUrl == "https://pasito.fun/u/salsa-club"

\* href matches r'^/l/'
StartsWithL(href) == href = RelativeVenueHref

\* href.startswith('/')
StartsWithSlash(href) == href \in {RelativeVenueHref, "/venue-info", "/e/e2", OrganizerHref}

\* any(keyword in text.lower() for keyword in ['venue', 'location', 'address'])
HasLocationKeyword(text) == text \in {"Venue details", "Location map"}

\* BASE_PASITO_URL + href
WithBase(href) ==
    CASE href = RelativeVenueHref -> VenueUrl
      [] href = "/venue-info" -> "https://pasito.fun/venue-info"
      [] href = "/e/e2" -> "https://pasito.fun/e/e2"
      [] href = OrganizerHref -> OrganizerUrl
      [] OTHER -> href

NoLink == [location_url |-> NoneVal, venue_name |-> NoneVal]

\* The first of the links at the positions hits, as (URL, label).
FirstLink(links, hits) ==
    LET first == CHOOSE i \in hits : \A j \in hits : i <= j
    IN  IF hits = {} THEN NoLink
        ELSE [location_url |-> Some(WithBase(links[first].href)),
              venue_name |-> Some(Strip(links[first].text))]

\* find_location_links of src/create_fb_event.py: the first /l/ link; without
\* one, the first site-relative link whose label has a location keyword.
FindLocationLinks(links) ==
    LET location_links == {i \in 1..Len(links) : StartsWithL(links[i].href)}
        keyword_links == {i \in 1..Len(links) :
                            HasLocationKeyword(links[i].text) /\ StartsWithSlash(links[i].href)}
    IN  IF location_links # {} THEN FirstLink(links, location_links)
        ELSE FirstLink(links, keyword_links)

\* What get_page_content_with_browser makes of a URL: a URL without a scheme
\* loads in neither the browser nor requests.
Loaded(url, page) ==
    IF url \in {VenueUrl, OrganizerUrl, "https://pasito.fun/venue-info"} THEN page
    ELSE UnloadedPage(IF page.fetch = "ok" THEN "none" ELSE page.fetch)

\* scrape_pasito_event of src/create_fb_event.py, lines 103-203: the version
\* with venue links.  Only requests.RequestException is caught, so what
\* scrape_address_from_location_page raises leaves the function.
ScrapePasitoEventWithLinks(page, links, venue_page) ==
    LET scraped == ScrapePasitoEvent(page)
        link == FindLocationLinks(links)
        resolved ==
            IF ~IsNone(link.location_url) /\ Val(link.location_url) # ""
            THEN ScrapeAddressFromLocationPage(link.location_url, link.venue_name,
                     Loaded(Val(link.location_url), venue_page))
            ELSE [raised |-> "none", value |-> NoneVal]
        location_details ==
            IF ~IsNone(resolved.value) THEN resolved.value
            ELSE ExtractLocationFromText(page.lines)
    IN  IF IsNone(scraped) THEN [raised |-> "none", value |-> NoneVal]
        ELSE IF resolved.raised # "none" THEN [raised |-> resolved.raised, value |-> NoneVal]
        ELSE [raised |-> "none",
              value |-> Some([Val(scraped) EXCEPT !.location_details = location_details])]

LinkLists ==
    { <<>>,
      <<Link("/e/e2", "Next event")>>,
      <<Link("/e/e2", "Next event"), Link(RelativeVenueHref, "The Hall"),
        Link("/venue-info", "Venue details")>>,
      <<Link("/venue-info", "Venue details"), Link(RelativeVenueHref, "The Hall")>>,
      <<Link("https://maps.example/x", "Location map"), Link("/venue-info", "Venue details")>>,
      <<Link("https://maps.example/x", "Location map")>>,
      <<Link(RelativeVenueHref, "")>> }

ResolvedPages ==
    { UnloadedPage("none"), UnloadedPage("WebDriverException"),
      [UnloadedPage("ok") EXCEPT !.title = Some("The Hall | Pasito")],
      UnloadedPage("ok"),
      [UnloadedPage("ok") EXCEPT !.address_p = <<"123 Main Street", "Boulder, CO 80302">>],
      [UnloadedPage("ok") EXCEPT !.address_p = <<"123 Main Street">>] }

LinkedPages ==
    { pg \in Pages : /\ pg.title \in {NoneVal, Some("Friday Night Social")}
                     /\ Len(pg.time) = 0 /\ IsNone(pg.date) }

(***************************************************************************)
(* scrape_pasito_event and main of src/pasito_event_scraper.py.  An event  *)
(* is the command-line argument, what loading the event page did, the      *)
(* title, meta description and og:description, the anchors, the organizer  *)
(* page, and the page scrape_address_from_location_page is given.          *)
(***************************************************************************)
\* hrefs that match https://pasito\.fun/l/[^"]+ inside an anchor
AbsoluteVenueHrefs == {VenueUrl}

\* hrefs in which re.compile(r'/l/') is found
HrefsWithL == {VenueUrl, RelativeVenueHref}

\* hrefs that match /u/[^"]+ at their start
OrganizerHrefs == {OrganizerHref}

\* The span text of an organizer page matches [A-Za-z\s]+,\s*[A-Z]{2} and
\* splits into at least two parts.
IsCityStateText(text) == text \in {"Boulder, CO", "Boulder, CO 80302"}

\* The positions of the anchors whose href matches.
Anchors(links, Hrefs) == {i \in 1..Len(links) : links[i].href \in Hrefs}

\* matches[0]: the first of the anchors at the positions hits, None without one.
FirstWhere(links, hits) ==
    LET first == CHOOSE i \in hits : \A j \in hits : i <= j
    IN  IF hits = {} THEN NoneVal ELSE Some(links[first])

FallbackPlace == Place("Dance Event", "", "Boulder", "CO", "")

\* scrape_pasito_event of src/pasito_event_scraper.py, lines 341-498.
ScraperScrapePasitoEvent(event) ==
    LET venue == FirstWhere(event.links, Anchors(event.links, AbsoluteVenueHrefs))
        organizer == IF IsNone(venue) THEN FirstWhere(event.links, Anchors(event.links, OrganizerHrefs))
                     ELSE NoneVal
        org == event.organizer_page
        viaOrganizer ==
            /\ ~IsNone(organizer)
            /\ org.fetch = "ok"
            /\ ~IsNone(org.location_span) /\ IsCityStateText(Val(org.location_span))
        location_url ==
            IF ~IsNone(venue) THEN Some(Val(venue).href)
            ELSE IF viaOrganizer THEN Some(WithBase(Val(organizer).href))
            ELSE NoneVal
        venue_name_from_link ==
            IF ~IsNone(venue) THEN Some(Strip(Val(venue).text))
            ELSE IF viaOrganizer THEN Some(Strip(Val(organizer).text))
            ELSE NoneVal
        location_data ==
            IF ~IsNone(location_url)
            THEN ScrapeAddressFromLocationPage(location_url, venue_name_from_link,
                     Loaded(Val(location_url), event.venue_page))
            ELSE [raised |-> "none", value |-> NoneVal]
        description == IF event.meta_description # "" THEN event.meta_description
                       ELSE event.paragraphs
    IN  IF event.fetch \notin {"ok", "none"} THEN [raised |-> event.fetch, value |-> NoneVal]
        ELSE IF event.fetch = "none" THEN [raised |-> "none", value |-> NoneVal]
        ELSE IF ~IsNone(organizer) /\ org.fetch \notin {"ok", "none"}
        THEN [raised |-> org.fetch, value |-> NoneVal]
        ELSE IF location_data.raised # "none"
        THEN [raised |-> location_data.raised, value |-> NoneVal]
        ELSE [raised |-> "none",
              value |-> Some([name |-> IF IsNone(event.title) THEN "Unknown Event"
                                       ELSE Strip(Val(event.title)),
                              description |-> description,
                              cover_url |-> "https://pasito.fun/static/images/og-image.png",
                              is_online |-> FALSE,
                              place |-> IF ~IsNone(location_data.value)
                                        THEN Val(location_data.value).place
                                        ELSE Some(FallbackPlace)])]

\* Lines 508-513 of main: "@" is dropped, an argument that is not an https
\* URL becomes an event URL.
EventUrlOf(arg) ==
    CASE arg \in {"@salsa-e1", "salsa-e1"} -> "https://pasito.fun/e/salsa-e1"
      [] OTHER -> arg

\* Lines 529-589 of main, for an event page that loaded: the dict that is
\* printed.  venue is what scrape_address_from_location_page returned, the
\* whole location dict, or None.
FacebookApiJson(event, cover_image) ==
    LET venue_link == FirstWhere(event.links, Anchors(event.links, HrefsWithL))
        venue == IF ~IsNone(venue_link)
                 THEN ScrapeAddressFromLocationPage(Some(Val(venue_link).href),
                          Some(Strip(Val(venue_link).text)),
                          Loaded(Val(venue_link).href, event.venue_page))
                 ELSE [raised |-> "none", value |-> NoneVal]
    IN  IF venue.raised # "none" THEN [raised |-> venue.raised, value |-> NoneVal]
        ELSE [raised |-> "none",
              value |-> Some([name |-> IF IsNone(event.title) THEN "Unknown Event"
                                       ELSE Strip(Val(event.title)),
                              description |-> event.og_description,
                              cover_url |-> cover_image,
                              is_online |-> FALSE,
                              place |-> venue.value])]

OrganizerPages ==
    { [fetch |-> "none", location_span |-> NoneVal],
      [fetch |-> "ok", location_span |-> NoneVal],
      [fetch |-> "ok", location_span |-> Some("Boulder, CO")] }

ScraperEvents ==
    [arg : {"@salsa-e1"},
     fetch : {"ok"},
     title : {NoneVal, Some("Salsa Night")},
     meta_description : {""},
     paragraphs : {"Join us"},
     og_description : {"", "Join us"},
     links : { <<>>, <<Link(VenueUrl, "The Hall")>>, <<Link(RelativeVenueHref, "The Hall")>>,
               <<Link(OrganizerHref, "Salsa Club")>> },
     organizer_page : OrganizerPages,
     venue_page : {UnloadedPage("none"),
                   [UnloadedPage("ok") EXCEPT
                        !.address_p = <<"123 Main Street", "Boulder, CO 80302">>]}]
    \cup
    [arg : {"salsa-e1", "https://pasito.fun/e/salsa-e1"},
     fetch : {"none", "WebDriverException"},
     title : {NoneVal}, meta_description : {""}, paragraphs : {""}, og_description : {""},
     links : {<<>>},
     organizer_page : {[fetch |-> "none", location_span |-> NoneVal]},
     venue_page : {UnloadedPage("none")}]
    \cup
    [arg : {"salsa-e1"},
     fetch : {"ok"},
     title : {Some("Salsa Night")}, meta_description : {"Join us"}, paragraphs : {""},
     og_description : {"Join us"},
     links : {<<Link(VenueUrl, "The Hall")>>, <<Link(OrganizerHref, "Salsa Club")>>},
     organizer_page : {[fetch |-> "WebDriverException", location_span |-> NoneVal],
                       [fetch |-> "ok", location_span |-> Some("Boulder, CO")]},
     venue_page : {UnloadedPage("WebDriverException"),
                   [UnloadedPage("ok") EXCEPT !.title = Some("The Hall | Pasito")]}]

\* The event pages of the scraper's main runs.
MainEvents ==
    { e \in ScraperEvents :
        /\ e.organizer_page.fetch = "none"
        /\ e.fetch = "ok" => (e.og_description = "Join us" /\ ~IsNone(e.title)) }

(***************************************************************************)
(* process_event_data and its helpers                                      *)
(* (src/pasito_event_scripts/event_processor.py).  A raw record holds an   *)
(* optional value per key; NoneVal is a key that is absent or None.        *)
(***************************************************************************)
IsoZ == "2025-06-06T19:00:00Z"
IsoOffset == "2025-06-06T19:00:00+00:00"
NotIso == "June 6, 7 PM"
NotAString == "<int 20250606>"
EventUrl == "https://pasito.fun/e/e1"
TicketUrl == "https://tickets.example/e1"

RawDict(name, address, city) ==
    [kind |-> "dict", name |-> name, address |-> address, city |-> city, country |-> NoneVal]

\* A location that is a string, not a dict.
RawString == [kind |-> "str", name |-> NoneVal, address |-> NoneVal, city |-> NoneVal,
              country |-> NoneVal]

\* not raw_data.get(field), negated, for a text value
TruthyText(o) == ~IsNone(o) /\ Val(o) # ""

\* not raw_data.get("location"), negated: None and the empty dict are falsy
TruthyLocation(o) ==
    /\ ~IsNone(o)
    /\ \/ Val(o).kind = "str"
       \/ \E f \in {"name", "address", "city", "country"} : ~IsNone(Val(o)[f])

Raise(type) == [raised |-> type, value |-> NoneVal]
Return(v) == [raised |-> "none", value |-> Some(v)]

\* _validate_datetime: str.replace on a non-string is an AttributeError, a
\* string fromisoformat rejects is a ValidationError.
ValidateDatetime(dt_str) ==
    CASE dt_str = NotAString -> Raise("AttributeError")
      [] dt_str \in {IsoZ, IsoOffset} -> Return(IsoOffset)
      [] OTHER -> Raise("ValidationError")

\* location.get(field, "").strip()
StripOrEmpty(o) == IF IsNone(o) THEN "" ELSE Strip(Val(o))

\* _process_location_data
ProcessLocationData(location) ==
    IF location.kind # "dict" THEN Raise("AttributeError")
    ELSE IF ~TruthyText(location.name) \/ ~TruthyText(location.address)
    THEN Raise("ValidationError")
    ELSE Return([name |-> Strip(Val(location.name)),
                 address |-> Strip(Val(location.address)),
                 city |-> StripOrEmpty(location.city),
                 country |-> StripOrEmpty(location.country)])

\* format_event_description without the source paragraph
FormatEventDescription_NoSource(description, ticket_url, source_url) ==
    <<<<"text", Strip(description)>>>>
        \o (IF TruthyText(ticket_url) THEN <<<<"tickets", Val(ticket_url)>>>> ELSE <<>>)

\* format_event_description: the stripped text, the ticket paragraph when
\* there is a ticket URL, the source paragraph.
FormatEventDescription(description, ticket_url, source_url) ==
    <<<<"text", Strip(description)>>>>
        \o (IF TruthyText(ticket_url) THEN <<<<"tickets", Val(ticket_url)>>>> ELSE <<>>)
        \o <<<<"source", source_url>>>>

\* The try block of process_event_data, lines 107-141.
ProcessEventDataBody(raw_data) ==
    LET start_time == ValidateDatetime(Val(raw_data.start_time))
        end_time == IF TruthyText(raw_data.end_time)
                    THEN ValidateDatetime(Val(raw_data.end_time))
                    ELSE Return("None")
        location == ProcessLocationData(Val(raw_data.location))
    IN  IF \/ ~TruthyText(raw_data.title)
           \/ ~TruthyText(raw_data.description)
           \/ ~TruthyText(raw_data.start_time)
           \/ ~TruthyLocation(raw_data.location)
        THEN Raise("ValidationError")
        ELSE IF start_time.raised # "none" THEN Raise(start_time.raised)
        ELSE IF end_time.raised # "none" THEN Raise(end_time.raised)
        ELSE IF location.raised # "none" THEN Raise(location.raised)
        ELSE IF IsNone(raw_data.source_url) THEN Raise("KeyError")
        ELSE Return([title |-> Strip(Val(raw_data.title)),
                     description |-> FormatEventDescription(Val(raw_data.description),
                                         raw_data.ticket_url, Val(raw_data.source_url)),
                     start_time |-> Val(start_time.value),
                     end_time |-> Val(end_time.value),
                     location |-> Val(location.value),
                     ticket_url |-> raw_data.ticket_url])

\* process_event_data without its except clause.
ProcessEventData_NoExceptClause(raw_data) ==
    LET body == ProcessEventDataBody(raw_data)
    IN  [raised |-> body.raised, cause |-> "none", value |-> body.value]

\* process_event_data: the try block under "except Exception", lines 143-145,
\* which raises ValidationError from whatever was raised.
ProcessEventData(raw_data) ==
    LET body == ProcessEventDataBody(raw_data)
    IN  IF body.raised = "none"
        THEN [raised |-> "none", cause |-> "none", value |-> body.value]
        ELSE [raised |-> "ValidationError", cause |-> body.raised, value |-> NoneVal]

RawLocations ==
    {NoneVal,
     Some(RawDict(NoneVal, NoneVal, NoneVal)),
     Some(RawDict(Some("The Hall"), Some("1 Main St"), Some("Boulder"))),
     Some(RawDict(Some("The Hall"), NoneVal, NoneVal)),
     Some(RawDict(Some(""), Some("1 Main St"), NoneVal)),
     Some(RawString)}

RawData ==
    [title : {NoneVal, Some(""), Some("   "), Some(" Salsa Night ")},
     description : {NoneVal, Some(""), Some("Join us"), Some(" Join us ")},
     start_time : {NoneVal, Some(IsoZ), Some(NotIso), Some(NotAString)},
     end_time : {NoneVal, Some(IsoZ), Some(NotIso)},
     location : RawLocations,
     ticket_url : {NoneVal, Some(""), Some(TicketUrl)},
     source_url : {NoneVal, Some(EventUrl)}]

\* Visible lines around the in-page title and the time line.
TitleLines ==
    { <<>>,
      <<"Join us", "Organizer">>,
      <<"   ", Clock>>,
      <<"Salsa Night", Clock>>,
      <<"Join us", "Salsa Night", Clock>>,
      <<"Join us", ClockText, "Boulder, CO">> }

TitledPages ==
    { [pg EXCEPT !.lines = lines] :
        pg \in { q \in Pages : q.fetch = "ok" /\ Len(q.time) = 0 /\ IsNone(q.date) },
        lines \in TitleLines }

(***************************************************************************)
(* create_facebook_event of src/pasito_event_scripts/create_fb_event.py    *)
(* with handle_creation_error of event_processor.py.  how tells which step *)
(* of the try block fails (validate: validate_event_creation returns       *)
(* False), what the text of the exception of that step contains, and what  *)
(* save_screenshot and refresh do inside the handler.                      *)
(***************************************************************************)
Failure(type, text) == [type |-> type, text |-> text]

\* The exception that leaves the try block of create_facebook_event.
CreationError(how) ==
    CASE how.fails_at = "navigate" -> Failure("WebDriverException", how.text)
      [] how.fails_at = "button" -> Failure("TimeoutException", how.text)
      [] how.fails_at = "fill" -> Failure("EventProcessingError", how.text)
      [] how.fails_at = "validate" -> Failure("EventProcessingError", "other")

\* "network" in str(error).lower() or "element not found" in str(error).lower()
Recoverable(error) == error.text \in {"network", "element not found"}

\* handle_creation_error: the exception it raises ("none": it returns) and
\* whether it refreshed the page.
HandleCreationError(error, how) ==
    IF how.screenshot # "ok" THEN [raised |-> how.screenshot, refreshed |-> FALSE]
    ELSE IF Recoverable(error)
         THEN IF how.refresh # "ok" THEN [raised |-> how.refresh, refreshed |-> FALSE]
              ELSE [raised |-> "none", refreshed |-> TRUE]
         ELSE [raised |-> error.type, refreshed |-> FALSE]

\* create_facebook_event: the exception that leaves it, the number of calls
\* of handle_creation_error, and whether the handler refreshed the page.
BrowserCreateFacebookEvent(how) ==
    IF how.fails_at = "none"
    THEN [raised |-> "none", handler_calls |-> 0, refreshed |-> FALSE]
    ELSE LET error == CreationError(how)
             handled == HandleCreationError(error, how)
         IN  [raised |-> IF handled.raised # "none" THEN handled.raised ELSE error.type,
              handler_calls |-> 1,
              refreshed |-> handled.refreshed]

CreationOutcomes ==
    [ fails_at : {"none", "navigate", "button", "fill", "validate"},
      text : {"network", "element not found", "other"},
      screenshot : {"ok", "WebDriverException"},
      refresh : {"ok", "WebDriverException"} ]

(***************************************************************************)
(* upload_photo_for_event of src/create_fb_event.py.  how is what happens: *)
(* the file is missing, the file cannot be opened, the POST succeeds,      *)
(* answers with an HTTP error status, fails with no response at all, or    *)
(* answers 200 with a body that has no id.  The outcome says whether a     *)
(* request was sent, what is returned and which exception escapes.         *)
(***************************************************************************)
UploadOutcomes == {"file_missing", "unreadable", "ok", "http_error", "no_response", "no_id"}

\* upload_photo_for_event with the request sent before the file is looked at
UploadPhotoForEvent_NoFileCheck(how) ==
    CASE how \in {"ok", "file_missing", "unreadable"} ->
            [sent |-> TRUE, returned |-> "photo_id", raised |-> "none"]
      [] OTHER -> [sent |-> TRUE, returned |-> "None", raised |-> "none"]

UploadPhotoForEvent(how) ==
    CASE how = "file_missing" -> [sent |-> FALSE, returned |-> "None", raised |-> "none"]
      [] how = "unreadable" ->
            \* open(image_path, 'rb') raises outside the try block
            [sent |-> FALSE, returned |-> "None", raised |-> "PermissionError"]
      [] how = "ok" -> [sent |-> TRUE, returned |-> "photo_id", raised |-> "none"]
      [] how = "http_error" -> [sent |-> TRUE, returned |-> "None", raised |-> "none"]
      [] how = "no_response" ->
            \* e.response is None: e.response.status_code raises in the handler
            [sent |-> TRUE, returned |-> "None", raised |-> "AttributeError"]
      [] OTHER ->
            \* result['id'] raises KeyError, which the except clause does not catch
            [sent |-> TRUE, returned |-> "None", raised |-> "KeyError"]

(***************************************************************************)
(* The event IDs of a run of main: what each -s pair yields (None: no -s   *)
(* option; scrape_series_for_event_ids returns [] when its GET fails),     *)
(* then the IDs of -e.                                                     *)
(***************************************************************************)
SeriesResults ==
    { NoneVal, Some(<<<<>>>>), Some(<<<<"e2", "e1">>>>),
      Some(<<<<"e3">>, <<"e1", "e3">>>>) }

RECURSIVE Extend(_)
Extend(lists) == IF Len(lists) = 0 THEN <<>> ELSE Head(lists) \o Extend(Tail(lists))

\* all_event_ids with the IDs of -e put first
AllEventIds_EventsFirst(series, events) ==
    events \o (IF IsNone(series) THEN <<>> ELSE Extend(Val(series)))

\* Lines 665-670: all_event_ids.
AllEventIds(series, events) ==
    (IF IsNone(series) THEN <<>> ELSE Extend(Val(series))) \o events

Programs ==
    {"main", "get_event_details_from_user", "create_facebook_event",
     "get_page_content_with_browser", "process_event_data",
     "scrape_address_from_location_page", "scrape_pasito_event",
     "pasito_event_scraper.scrape_pasito_event", "pasito_event_scraper.main",
     "pasito_event_scripts.main", "translate_description",
     "scrape_pasito_event (line 428)", "pasito_event_scripts.create_facebook_event",
     "upload_photo_for_event", "main (event IDs)"}

Idle == [raised |-> "idle"]

\* The arguments each entry point is called with.
Arguments(p) ==
    CASE p = "get_event_details_from_user" ->
            [loc : ScrapedLocations, time : ScrapedTimes, date : ScrapedDates]
      [] p = "create_facebook_event" -> [credentials : BOOLEAN, how : PostOutcomes]
      [] p = "process_event_data" -> RawData
      [] p = "scrape_address_from_location_page" ->
            [location_url : {NoneVal, Some(VenueUrl)},
             venue_name_from_link : LinkLabels,
             page : VenuePages]
      [] p = "scrape_pasito_event" ->
            [page : LinkedPages, links : LinkLists, venue_page : ResolvedPages]
      [] p = "pasito_event_scraper.scrape_pasito_event" -> ScraperEvents
      [] p = "pasito_event_scraper.main" ->
            [events : SeqsUpTo(MainEvents, MaxEvents) \ {<<>>},
             cover_image : {NoneVal, Some("https://img.example/c.png")}]
      [] p = "scrape_pasito_event (line 428)" -> TitledPages
      [] p = "pasito_event_scripts.create_facebook_event" -> CreationOutcomes
      [] p = "upload_photo_for_event" -> [how : UploadOutcomes]
      [] p = "main (event IDs)" ->
            [series : SeriesResults, events : SeqsUpTo(EventIds, MaxBatch)]
      [] p = "translate_description" ->
            [text : {<<>>, <<"Join us">>, <<"Ven a bailar", "Salsa Night">>},
             how : TranslatorOutcomes]
      [] OTHER -> {<<>>}

Init ==
    /\ prog \in Programs
    /\ pc = "start"
    /\ args \in Arguments(prog)
    /\ result = Idle
    /\ preview = FALSE
    /\ unique_event_ids = <<>>
    /\ idx = 0
    /\ attempted = {}
    /\ scraped_data = NoneVal
    /\ final_payload = NoneVal
    /\ posted = <<>>
    /\ previewed = <<>>
    /\ cover = "no_upload"
    /\ raised = "none"
    /\ driver = "none"
    /\ trace = <<>>

fetchVars == <<driver, trace>>

\* What main does not touch.
otherVars == <<args, result, fetchVars>>

mainVars == <<preview, unique_event_ids, idx, attempted, scraped_data,
              final_payload, posted, previewed, cover, raised>>

(***************************************************************************)
(* main of src/create_fb_event.py.                                         *)
(***************************************************************************)
\* What --cover leads to: no cover given, or one of the outcomes of
\* upload_photo_for_event.
CoverOutcomes == {"no_cover"} \cup UploadOutcomes

\* What main keeps of a call of upload_photo_for_event.
CoverStatus(upload) ==
    IF upload.raised # "none" THEN "upload_crashed"
    ELSE IF upload.returned = "None"
         THEN (IF upload.sent THEN "upload_failed" ELSE "file_missing")
         ELSE "uploaded"

\* Lines 658-663: the cover photo is uploaded when --cover is given and
\* --preview is not.
UploadCover(given, pv) ==
    IF given = "no_cover" \/ pv THEN "no_upload"
    ELSE CoverStatus(UploadPhotoForEvent(given))

\* main has returned before its loop, at the return statement of that line,
\* with these event IDs given on the command line.
ReturnedAt(line, events) == [raised |-> "none", line |-> line, events |-> events]

\* Lines 639-677: the credentials check, the arguments, the cover upload (not
\* in preview mode), the series pages and the deduplicated list.
Main ==
    /\ prog = "main"
    /\ pc = "start"
    /\ \E credentials \in BOOLEAN, pv \in BOOLEAN, given \in CoverOutcomes,
          series \in SeriesResults, events \in SeqsUpTo(EventIds, MaxBatch) :
          LET all_event_ids == AllEventIds(series, events)
              unique == Dedup(all_event_ids, {})
              noArguments == IsNone(series) /\ Len(events) = 0
              uploaded == IF noArguments THEN "no_upload" ELSE UploadCover(given, pv)
              upload_raised == IF uploaded = "upload_crashed"
                               THEN UploadPhotoForEvent(given).raised ELSE "none"
              line == CASE ~credentials -> 642
                        [] credentials /\ noArguments -> 656
                        [] credentials /\ ~noArguments
                             /\ uploaded \in {"upload_failed", "file_missing"} -> 663
                        [] OTHER -> 675
          IN  /\ preview' = pv
              /\ cover' = IF credentials THEN uploaded ELSE "no_upload"
              /\ IF credentials /\ uploaded = "upload_crashed"
                 THEN /\ pc' = "crashed"
                      /\ raised' = upload_raised
                      /\ UNCHANGED <<result, unique_event_ids, idx>>
                 ELSE IF \/ ~credentials
                         \/ uploaded \in {"upload_failed", "file_missing"}
                         \/ Len(unique) = 0
                 THEN /\ pc' = "returned"
                      /\ result' = ReturnedAt(line, all_event_ids)
                      /\ UNCHANGED <<unique_event_ids, idx, raised>>
                 ELSE /\ unique_event_ids' = unique
                      /\ idx' = 1
                      /\ pc' = "loop"
                      /\ UNCHANGED <<result, raised>>
    /\ UNCHANGED <<prog, args, fetchVars, attempted, scraped_data, final_payload,
                   posted, previewed>>

\* Lines 678-683: the head of the loop body, scrape_pasito_event and the skip.
ScrapeEvent ==
    /\ prog = "main"
    /\ pc = "loop"
    /\ idx <= Len(unique_event_ids)
    /\ attempted' = attempted \cup {unique_event_ids[idx]}
    /\ \E page \in Pages :
          LET scraped == ScrapePasitoEvent(page)
          IN  IF IsNone(scraped)
              THEN /\ idx' = idx + 1
                   /\ UNCHANGED <<pc, scraped_data>>
              ELSE /\ scraped_data' = scraped
                   /\ pc' = "translate"
                   /\ UNCHANGED idx
    /\ UNCHANGED <<prog, otherVars, preview, unique_event_ids, final_payload,
                   posted, previewed, cover, raised>>

\* Line 685.
TranslateEvent ==
    /\ prog = "main"
    /\ pc = "translate"
    /\ \E how \in TranslatorOutcomes :
          scraped_data' =
              Some([Val(scraped_data) EXCEPT
                      !.description = TranslateDescription(@, how)])
    /\ pc' = "details"
    /\ UNCHANGED <<prog, otherVars, preview, unique_event_ids, idx, attempted,
                   final_payload, posted, previewed, cover, raised>>

\* Lines 687-699: get_event_details_from_user and the payload.  An exception
\* of get_event_details_from_user is caught nowhere and ends main.
DetailsOfEvent ==
    /\ prog = "main"
    /\ pc = "details"
    /\ \E inp \in BatchInputs :
          LET sd == Val(scraped_data)
              details == GetEventDetails(sd.location_details, sd.scraped_time,
                                         sd.scraped_date, inp)
          IN  IF details.raised # "none"
              THEN /\ raised' = details.raised
                   /\ pc' = "crashed"
                   /\ UNCHANGED final_payload
              ELSE /\ final_payload' =
                        Some([ name |-> sd.name,
                               description |-> sd.description,
                               cover_url |-> sd.cover_url,
                               start_time |-> details.start_time,
                               end_time |-> details.end_time,
                               event_time_zone |-> details.event_time_zone,
                               is_online |-> details.is_online,
                               place |-> details.place ])
                   /\ pc' = "publish"
                   /\ UNCHANGED raised
    /\ UNCHANGED <<prog, otherVars, preview, unique_event_ids, idx, attempted,
                   scraped_data, posted, previewed, cover>>

\* Lines 701-702.  The locals of the iteration are dead once it ends.
PreviewEvent ==
    /\ prog = "main"
    /\ pc = "publish"
    /\ preview
    /\ idx' = idx + 1
    /\ pc' = "loop"
    /\ scraped_data' = NoneVal
    /\ final_payload' = NoneVal
    /\ previewed' = Append(previewed, unique_event_ids[idx])
    /\ UNCHANGED <<prog, otherVars, preview, unique_event_ids, attempted,
                   posted, cover, raised>>

\* create_facebook_event called a second time for an event whose first
\* request came back without a result.
PublishEvent_RetryOnce ==
    /\ prog = "main"
    /\ pc = "publish"
    /\ ~preview
    /\ \E how \in PostOutcomes :
          LET out == CreateFacebookEvent(TRUE, how)
              first == \A i \in 1..Len(posted) : posted[i] # unique_event_ids[idx]
          IN  /\ posted' = IF out.sent THEN Append(posted, unique_event_ids[idx])
                           ELSE posted
              /\ IF out.raised # "none"
                 THEN /\ raised' = out.raised
                      /\ pc' = "crashed"
                      /\ UNCHANGED <<idx, scraped_data, final_payload>>
                 ELSE IF first /\ out.returned = "None"
                 THEN UNCHANGED <<pc, idx, scraped_data, final_payload, raised>>
                 ELSE /\ idx' = idx + 1
                      /\ pc' = "loop"
                      /\ scraped_data' = NoneVal
                      /\ final_payload' = NoneVal
                      /\ UNCHANGED raised
    /\ UNCHANGED <<prog, otherVars, preview, unique_event_ids, attempted, previewed, cover>>

\* Lines 703-704: create_facebook_event; what it raises ends main.
PublishEvent ==
    /\ prog = "main"
    /\ pc = "publish"
    /\ ~preview
    /\ \E how \in PostOutcomes :
          LET out == CreateFacebookEvent(TRUE, how)
          IN  /\ posted' = IF out.sent THEN Append(posted, unique_event_ids[idx])
                           ELSE posted
              /\ IF out.raised # "none"
                 THEN /\ raised' = out.raised
                      /\ pc' = "crashed"
                      /\ UNCHANGED <<idx, scraped_data, final_payload>>
                 ELSE /\ idx' = idx + 1
                      /\ pc' = "loop"
                      /\ scraped_data' = NoneVal
                      /\ final_payload' = NoneVal
                      /\ UNCHANGED raised
    /\ UNCHANGED <<prog, otherVars, preview, unique_event_ids, attempted, previewed, cover>>

\* Line 706: the loop is exhausted.
AllProcessed ==
    /\ prog = "main"
    /\ pc = "loop"
    /\ idx > Len(unique_event_ids)
    /\ pc' = "done"
    /\ UNCHANGED <<prog, otherVars, mainVars>>

\* A direct call of get_event_details_from_user.
CallGetEventDetails ==
    /\ prog = "get_event_details_from_user"
    /\ pc = "start"
    /\ \E inp \in OperatorInputs :
          result' = GetEventDetails(args.loc, args.time, args.date, inp)
    /\ pc' = "exited"
    /\ UNCHANGED <<prog, args, fetchVars, mainVars>>

\* A direct call of create_facebook_event.
CallCreateFacebookEvent ==
    /\ prog = "create_facebook_event"
    /\ pc = "start"
    /\ result' = CreateFacebookEvent(args.credentials, args.how)
    /\ pc' = "exited"
    /\ UNCHANGED <<prog, args, fetchVars, mainVars>>

\* A direct call of the scrape_pasito_event that main calls (the definition at
\* line 428 replaces the one at line 103).
CallScrapePasitoEventOfMain ==
    /\ prog = "scrape_pasito_event (line 428)"
    /\ pc = "start"
    /\ result' = [raised |-> "none", value |-> ScrapePasitoEvent(args)]
    /\ pc' = "exited"
    /\ UNCHANGED <<prog, args, fetchVars, mainVars>>

\* A direct call of create_facebook_event of pasito_event_scripts.
CallBrowserCreateFacebookEvent ==
    /\ prog = "pasito_event_scripts.create_facebook_event"
    /\ pc = "start"
    /\ result' = BrowserCreateFacebookEvent(args)
    /\ pc' = "exited"
    /\ UNCHANGED <<prog, args, fetchVars, mainVars>>

\* A direct call of upload_photo_for_event.
CallUploadPhotoForEvent ==
    /\ prog = "upload_photo_for_event"
    /\ pc = "start"
    /\ result' = UploadPhotoForEvent(args.how)
    /\ pc' = "exited"
    /\ UNCHANGED <<prog, args, fetchVars, mainVars>>

\* Lines 665-672 of main on their own: the list of event IDs of the run.
CollectEventIds ==
    /\ prog = "main (event IDs)"
    /\ pc = "start"
    /\ result' = [raised |-> "none",
                  value |-> Dedup(AllEventIds(args.series, args.events), {})]
    /\ pc' = "exited"
    /\ UNCHANGED <<prog, args, fetchVars, mainVars>>

\* A direct call of translate_description.
CallTranslateDescription ==
    /\ prog = "translate_description"
    /\ pc = "start"
    /\ result' = [raised |-> "none", value |-> TranslateDescription(args.text, args.how)]
    /\ pc' = "exited"
    /\ UNCHANGED <<prog, args, fetchVars, mainVars>>

\* A direct call of process_event_data.
CallProcessEventData ==
    /\ prog = "process_event_data"
    /\ pc = "start"
    /\ result' = ProcessEventData(args)
    /\ pc' = "exited"
    /\ UNCHANGED <<prog, args, fetchVars, mainVars>>

\* A direct call of scrape_address_from_location_page.
CallScrapeAddressFromLocationPage ==
    /\ prog = "scrape_address_from_location_page"
    /\ pc = "start"
    /\ result' = ScrapeAddressFromLocationPage(args.location_url, args.venue_name_from_link,
                                               args.page)
    /\ pc' = "exited"
    /\ UNCHANGED <<prog, args, fetchVars, mainVars>>

\* A direct call of scrape_pasito_event (src/create_fb_event.py, line 103).
CallScrapePasitoEvent ==
    /\ prog = "scrape_pasito_event"
    /\ pc = "start"
    /\ result' = ScrapePasitoEventWithLinks(args.page, args.links, args.venue_page)
    /\ pc' = "exited"
    /\ UNCHANGED <<prog, args, fetchVars, mainVars>>

\* A direct call of scrape_pasito_event (src/pasito_event_scraper.py).
CallScraperScrapePasitoEvent ==
    /\ prog = "pasito_event_scraper.scrape_pasito_event"
    /\ pc = "start"
    /\ result' = ScraperScrapePasitoEvent(args)
    /\ pc' = "exited"
    /\ UNCHANGED <<prog, args, fetchVars, mainVars>>

(***************************************************************************)
(* main of src/pasito_event_scraper.py.  result holds the event URLs and   *)
(* the dicts printed so far; idx is the number of URLs gone through.       *)
(***************************************************************************)
scraperLeaves ==
    <<prog, args, fetchVars, preview, unique_event_ids, attempted, scraped_data,
      final_payload, posted, previewed, cover, raised>>

\* Lines 500-523: the arguments become the event URLs.
ScraperMain ==
    /\ prog = "pasito_event_scraper.main"
    /\ pc = "start"
    /\ result' = [raised |-> "none",
                  event_urls |-> [i \in 1..Len(args.events) |-> EventUrlOf(args.events[i].arg)],
                  printed |-> <<>>]
    /\ pc' = "loop"
    /\ UNCHANGED <<idx, scraperLeaves>>

\* Lines 525-593: one pass of the loop.
ScraperMainEvent ==
    /\ prog = "pasito_event_scraper.main"
    /\ pc = "loop"
    /\ idx < Len(args.events)
    /\ LET event == args.events[idx + 1]
           json == FacebookApiJson(event, args.cover_image)
       IN  IF event.fetch \notin {"ok", "none"}
           THEN result' = [result EXCEPT !.raised = event.fetch] /\ pc' = "crashed"
           ELSE IF event.fetch = "none"
           THEN UNCHANGED <<result, pc>>
           ELSE IF json.raised # "none"
           THEN result' = [result EXCEPT !.raised = json.raised] /\ pc' = "crashed"
           ELSE /\ result' = [result EXCEPT !.printed = Append(@, Val(json.value))]
                /\ UNCHANGED pc
    /\ idx' = idx + 1
    /\ UNCHANGED scraperLeaves

\* The loop of main has gone through every URL.
ScraperMainDone ==
    /\ prog = "pasito_event_scraper.main"
    /\ pc = "loop"
    /\ idx = Len(args.events)
    /\ pc' = "exited"
    /\ UNCHANGED <<result, idx, scraperLeaves>>

(***************************************************************************)
(* get_page_content_with_browser (src/pasito_event_scraper.py), one action *)
(* per call that can fail.  result holds the value the return statement    *)
(* has computed; the finally clause runs before the function is left.      *)
(***************************************************************************)
Fetching(at) == prog = "get_page_content_with_browser" /\ pc = at

NoPage == [raised |-> "none", html |-> NoneVal, text |-> NoneVal]
PageOf(html, text) == [raised |-> "none", html |-> Some(html), text |-> Some(text)]

\* Line 34: webdriver.Chrome(options=chrome_options).
CreateDriver ==
    /\ Fetching("start")
    /\ \/ /\ driver' = "live"
          /\ trace' = Append(trace, "create")
          /\ pc' = "navigate"
       \/ /\ trace' = Append(trace, "create_failed")
          /\ pc' = "fallback"
          /\ UNCHANGED driver
    /\ UNCHANGED <<prog, args, result, mainVars>>

\* Lines 35-38: set_page_load_timeout and driver.get(url).
Navigate ==
    /\ Fetching("navigate")
    /\ \/ /\ trace' = Append(trace, "get")
          /\ pc' = "settle"
       \/ /\ trace' = Append(trace, "get_failed")
          /\ pc' = "fallback"
    /\ UNCHANGED <<prog, args, result, driver, mainVars>>

\* Line 42: time.sleep(3).
Settle ==
    /\ Fetching("settle")
    /\ trace' = Append(trace, "sleep")
    /\ pc' = "await"
    /\ UNCHANGED <<prog, args, result, driver, mainVars>>

\* The readiness wait with a timeout that is not caught at lines 50-51.
AwaitReady_TimeoutFallsBack ==
    /\ Fetching("await")
    /\ \/ trace' = Append(trace, "ready") /\ pc' = "read"
       \/ trace' = Append(trace, "ready_timeout") /\ pc' = "fallback"
    /\ UNCHANGED <<prog, args, result, driver, mainVars>>

\* Lines 45-51: the readiness wait; its timeout is caught and only logged.
AwaitReady ==
    /\ Fetching("await")
    /\ \E outcome \in {"ready", "ready_timeout"} : trace' = Append(trace, outcome)
    /\ pc' = "read"
    /\ UNCHANGED <<prog, args, result, driver, mainVars>>

\* Lines 54-61: page_source and the body text, then the return statement.
ReadPage ==
    /\ Fetching("read")
    /\ \/ /\ trace' = Append(trace, "read")
          /\ \E html \in {"<html>"}, text \in {"", "text"} : result' = PageOf(html, text)
          /\ pc' = "finally"
       \/ /\ trace' = Append(trace, "read_failed")
          /\ pc' = "fallback"
          /\ UNCHANGED result
    /\ UNCHANGED <<prog, args, driver, mainVars>>

\* Lines 63-74: the except clause: the static GET and its own except clause.
StaticGet ==
    /\ Fetching("fallback")
    /\ \/ /\ trace' = Append(trace, "static_get")
          /\ \E body \in {"", "<html>"} : result' = PageOf(body, body)
       \/ /\ trace' = Append(trace, "static_get_failed")
          /\ result' = NoPage
    /\ pc' = "finally"
    /\ UNCHANGED <<prog, args, driver, mainVars>>

\* What driver.quit() does: end the session, or raise.
QuitOutcomes == {"ok", "WebDriverException"}

\* Lines 76-78: the finally clause.  An exception of driver.quit() replaces
\* the pending return.
QuitDriver ==
    /\ Fetching("finally")
    /\ IF driver = "live"
       THEN \E outcome \in QuitOutcomes :
               IF outcome = "ok"
               THEN /\ driver' = "quit"
                    /\ trace' = Append(trace, "quit")
                    /\ UNCHANGED result
               ELSE /\ trace' = Append(trace, "quit_failed")
                    /\ result' = [NoPage EXCEPT !.raised = outcome]
                    /\ UNCHANGED driver
       ELSE UNCHANGED <<driver, trace, result>>
    /\ pc' = "exited"
    /\ UNCHANGED <<prog, args, mainVars>>

(***************************************************************************)
(* main of src/pasito_event_scripts/create_fb_event.py: one event URL, a   *)
(* browser session, login, scrape, process, create.  result holds how the  *)
(* process ends: the exception that leaves main and the exit code.         *)
(* scraped_data is raw_event_data and final_payload is event_data.         *)
(***************************************************************************)
ScriptsMain(at) == prog = "pasito_event_scripts.main" /\ pc = at

Running == [raised |-> "none", code |-> 0]

\* an exit that reports success
SysExit1_Status0 == [raised |-> "SystemExit", code |-> 0]

\* sys.exit(1), called by the except clause of main or by login_to_facebook.
SysExit1 == [raised |-> "SystemExit", code |-> 1]

\* An exception nothing catches ends the interpreter with status 1.
Uncaught(exception) == [raised |-> exception, code |-> 1]

\* What scrape_pasito_event of event_processor.py returns for a page that
\* loads: every key is there, a missing element gives "" or {}.
ScrapedRaw ==
    { r \in RawData :
        /\ r.title \in {Some(""), Some(" Salsa Night ")}
        /\ r.description = Some("Join us")
        /\ r.start_time \in {Some(IsoZ), Some(NotIso)}
        /\ r.end_time = NoneVal
        /\ r.location \in {Some(RawDict(NoneVal, NoneVal, NoneVal)),
                           Some(RawDict(Some("The Hall"), Some("1 Main St"), Some("Boulder")))}
        /\ r.ticket_url = NoneVal
        /\ r.source_url = Some(EventUrl) }

\* the "driver" never bound
DriverInLocals_Never == FALSE

\* "driver" in locals(), line 307
DriverInLocals == driver # "none"

scriptsLeaves == <<prog, args, preview, unique_event_ids, idx, attempted, posted, previewed, cover, raised>>

\* Lines 283-289: the logger, then setup_driver inside the try block.
SetupDriver ==
    /\ ScriptsMain("start")
    /\ \/ /\ driver' = "live"
          /\ trace' = Append(trace, "setup_driver")
          /\ result' = Running
          /\ pc' = "login"
       \/ /\ trace' = Append(trace, "setup_driver_failed")
          /\ result' = SysExit1
          /\ pc' = "finally"
          /\ UNCHANGED driver
    /\ UNCHANGED <<scraped_data, final_payload, scriptsLeaves>>

\* Line 292: login_to_facebook, which calls sys.exit(1) itself when the
\* credentials are missing or the login fails.
Login ==
    /\ ScriptsMain("login")
    /\ \E outcome \in {"login", "login_no_credentials", "login_failed"} :
          /\ trace' = Append(trace, outcome)
          /\ IF outcome = "login"
             THEN pc' = "scrape" /\ UNCHANGED result
             ELSE pc' = "finally" /\ result' = SysExit1
    /\ UNCHANGED <<driver, scraped_data, final_payload, scriptsLeaves>>

\* Line 295: scrape_pasito_event of event_processor.py; ScrapingError goes to
\* the except clause, which calls sys.exit(1).
ScrapeForScripts ==
    /\ ScriptsMain("scrape")
    /\ \/ /\ \E raw \in ScrapedRaw : scraped_data' = Some(raw)
          /\ trace' = Append(trace, "scrape_pasito_event")
          /\ pc' = "process"
          /\ UNCHANGED result
       \/ /\ trace' = Append(trace, "scrape_pasito_event_failed")
          /\ result' = SysExit1
          /\ pc' = "finally"
          /\ UNCHANGED scraped_data
    /\ UNCHANGED <<driver, final_payload, scriptsLeaves>>

\* Line 298: process_event_data; its ValidationError goes to the except clause.
ProcessForScripts ==
    /\ ScriptsMain("process")
    /\ LET processed == ProcessEventData(Val(scraped_data))
       IN  IF processed.raised = "none"
           THEN /\ final_payload' = processed.value
                /\ trace' = Append(trace, "process_event_data")
                /\ pc' = "create"
                /\ UNCHANGED result
           ELSE /\ trace' = Append(trace, "process_event_data_failed")
                /\ result' = SysExit1
                /\ pc' = "finally"
                /\ UNCHANGED final_payload
    /\ UNCHANGED <<driver, scraped_data, scriptsLeaves>>

\* Line 301: create_facebook_event with the driver; it re-raises whatever
\* fails (lines 170-172), and the except clause of main calls sys.exit(1).
CreateForScripts ==
    /\ ScriptsMain("create")
    /\ \/ /\ trace' = Append(trace, "create_facebook_event")
          /\ UNCHANGED result
       \/ /\ trace' = Append(trace, "create_facebook_event_failed")
          /\ result' = SysExit1
    /\ pc' = "finally"
    /\ UNCHANGED <<driver, scraped_data, final_payload, scriptsLeaves>>

\* Lines 306-309: the finally clause.  It runs with the SystemExit pending;
\* an exception of driver.quit() replaces what was pending.
ScriptsFinally ==
    /\ ScriptsMain("finally")
    /\ IF DriverInLocals
       THEN \E outcome \in QuitOutcomes :
               IF outcome = "ok"
               THEN /\ driver' = "quit"
                    /\ trace' = Append(trace, "quit")
                    /\ UNCHANGED result
               ELSE /\ trace' = Append(trace, "quit_failed")
                    /\ result' = Uncaught(outcome)
                    /\ UNCHANGED driver
       ELSE UNCHANGED <<driver, trace, result>>
    /\ pc' = "exited"
    /\ UNCHANGED <<scraped_data, final_payload, scriptsLeaves>>

(***************************************************************************)
(* Claims about get_event_details_from_user.                               *)
(***************************************************************************)
Exited(p) == prog = p /\ pc = "exited"
Returned(p) == Exited(p) /\ result.raised = "none"

BothWellFormed(time) ==
    Len(time) = 2 /\ WellFormedTime(time[1]) /\ WellFormedTime(time[2])

\* C2: for every scraped time range whose two tokens are well-formed 12-hour
\* clock times, equal tokens included, the returned end_time is strictly later
\* than the returned start_time.
C2_EndAfterStart ==
    (Returned("get_event_details_from_user") /\ BothWellFormed(args.time))
        => result.end_time > result.start_time

\* C3: overnight heuristic.  When the parsed end clock time is earlier than the
\* parsed start clock time the returned duration is end - start + 1440 minutes
\* and the local end falls on the calendar day after the local start; when the
\* end is later than the start the duration is end - start and no day is added;
\* 6:30 PM to 12:30 AM lasts 360 minutes.
C3_OvernightHeuristic ==
    (Returned("get_event_details_from_user") /\ BothWellFormed(args.time)) =>
        LET s == StrpTime(args.time[1])
            e == StrpTime(args.time[2])
            minutes == result.end_time - result.start_time
            startDay == result.start_datetime_local \div MinutesPerDay
            endDay == result.end_datetime_local \div MinutesPerDay
        IN  /\ e < s => /\ minutes = e - s + 1440
                        /\ endDay = startDay + 1
                        /\ result.end_datetime_local % MinutesPerDay = e
            /\ e > s => /\ minutes = e - s
                        /\ endDay = startDay
            /\ (args.time = <<Tok(6, 30, "PM", 1), Tok(12, 30, "AM", 1)>>)
                   => minutes = 360

\* A call with 6:30 PM to 12:30 AM has returned, its end being on the next day.
C3_Witness ==
    /\ Returned("get_event_details_from_user")
    /\ args.time = <<Tok(6, 30, "PM", 1), Tok(12, 30, "AM", 1)>>
    /\ result.end_time - result.start_time = 360
    /\ result.end_datetime_local \div MinutesPerDay
         = result.start_datetime_local \div MinutesPerDay + 1

(***************************************************************************)
(* Claims about main of src/create_fb_event.py and its publisher.          *)
(***************************************************************************)
Range(q) == {q[i] : i \in 1..Len(q)}

\* C1: no error raised while processing one event ID aborts the loop: whenever
\* main has ended after entering the loop, by falling off the loop or by an
\* exception, every event ID of the batch has been processed.
C1_BatchNeverAborted ==
    (prog = "main" /\ pc \in {"done", "crashed"})
        => attempted = Range(unique_event_ids)

\* C5: create_facebook_event reports a failed POST as a value: when the POST
\* fails with no response or with an HTTP error status, the call returns the
\* failure value and no exception escapes.
C5_PublisherNeverRaises ==
    (Exited("create_facebook_event") /\ args.credentials
       /\ args.how \in {"no_response", "http_error"})
        => (result.raised = "none" /\ result.returned = "None")

\* C7: whenever create_facebook_event is about to be called for an event (main
\* stands at the publish step with preview off), the name and the description
\* of the payload handed to it are non-empty.
C7_PublishedNameAndDescription ==
    (prog = "main" /\ pc = "publish" /\ ~preview)
        => (Val(final_payload).name # "" /\ Len(Val(final_payload).description) > 0)

(***************************************************************************)
(* Claims about get_page_content_with_browser.                             *)
(***************************************************************************)
Occurs(event) == \E i \in 1..Len(trace) : trace[i] = event

RenderedFailed == Occurs("create_failed") \/ Occurs("get_failed") \/ Occurs("read_failed")

\* C4: get_page_content_with_browser never raises to its caller: whatever
\* driver creation, navigation, the readiness wait, the page read, the static
\* GET and driver shutdown do, it returns a pair, and the pair is (None, None)
\* only when the rendered and the static strategy have both failed.
C4_FetchNeverRaises ==
    Exited("get_page_content_with_browser") =>
        /\ result.raised = "none"
        /\ IsNone(result.html) => (RenderedFailed /\ Occurs("static_get_failed"))

(***************************************************************************)
(* Claims about process_event_data.                                        *)
(***************************************************************************)
RequiredPresent(raw_data) ==
    /\ raw_data.title \notin {NoneVal, Some("")}
    /\ raw_data.description \notin {NoneVal, Some("")}
    /\ raw_data.start_time \notin {NoneVal, Some("")}
    /\ raw_data.location \notin {NoneVal, Some(RawDict(NoneVal, NoneVal, NoneVal))}

\* C6: process_event_data returns a processed record only when title,
\* description, start_time and location are all present and non-empty in the
\* raw data; when one of them is missing or empty it raises ValidationError;
\* and the only exception type that leaves it is ValidationError.
C6_StrictRequiredFields ==
    Exited("process_event_data") =>
        /\ result.raised \in {"none", "ValidationError"}
        /\ result.raised = "none" => RequiredPresent(args)
        /\ ~RequiredPresent(args) => result.raised = "ValidationError"

\* All four required fields are there, the source URL is not: the KeyError of
\* the body has left process_event_data as a ValidationError.
C6_Witness ==
    /\ Exited("process_event_data")
    /\ RequiredPresent(args)
    /\ result.raised = "ValidationError"
    /\ result.cause = "KeyError"

(***************************************************************************)
(* Claims about scrape_address_from_location_page.                         *)
(***************************************************************************)
\* The venue name is known from the link label or from the venue page.
VenueNameKnown(a) ==
    \/ a.venue_name_from_link \notin {NoneVal, Some("")}
    \/ a.page.title \notin {NoneVal, Some("")}
    \/ a.page.h1 \notin {NoneVal, Some("")}

NameOnly(location) ==
    /\ ~IsNone(location)
    /\ ~IsNone(Val(location).place)
    /\ LET place == Val(Val(location).place)
       IN  /\ place.name # ""
           /\ place.street = "" /\ place.city = "" /\ place.state = "" /\ place.zip = ""

\* C9: whenever scrape_address_from_location_page is called for a venue link,
\* the venue name is known and no structured address is recovered, the result
\* is an address with the venue name and empty street, city, state and zip,
\* never None; the venue page that cannot be fetched is such a case.
C9_NameOnlyAddress ==
    ( /\ Exited("scrape_address_from_location_page")
      /\ ~IsNone(args.location_url)
      /\ VenueNameKnown(args)
      /\ result.raised = "none"
      /\ ~(result.found.street # "" /\ result.found.city # "" /\ result.found.state # "") )
        => NameOnly(result.value)

(***************************************************************************)
(* Claims about the location of an assembled payload.                      *)
(***************************************************************************)
HasVenueName(place) == "name" \in DOMAIN place /\ place.name # ""

ExactlyOneLocationKind(payload) ==
    \/ payload.is_online /\ IsNone(payload.place)
    \/ ~payload.is_online /\ ~IsNone(payload.place) /\ HasVenueName(Val(payload.place))

\* C8: every assembled payload is online without a place, or not online with
\* a place that has a venue name: the details get_event_details_from_user
\* returns and main posts, the event scrape_pasito_event of the scraper
\* returns, and every dict the scraper's main prints.
C8_ExactlyOneLocationKind ==
    /\ Returned("get_event_details_from_user") => ExactlyOneLocationKind(result)
    /\ (prog = "main" /\ ~IsNone(final_payload)) => ExactlyOneLocationKind(Val(final_payload))
    /\ (Returned("pasito_event_scraper.scrape_pasito_event") /\ ~IsNone(result.value))
            => ExactlyOneLocationKind(Val(result.value))
    /\ (prog = "pasito_event_scraper.main" /\ pc # "start")
            => \A i \in 1..Len(result.printed) : ExactlyOneLocationKind(result.printed[i])

(***************************************************************************)
(* Claims about the venue tiers of scrape_pasito_event.                    *)
(***************************************************************************)
HasTier1Link(links) == \E i \in 1..Len(links) : StartsWithL(links[i].href)
HasTier3Text(lines) == ~IsNone(ExtractLocationFromText(lines))

\* C10: for a document that has a tier-1 /l/ link and a tier-3 "City, ST"
\* line, the location of the scraped event is what resolving the tier-1 link
\* gave, whatever that is; the text tier is not consulted.
C10_TierOrdering ==
    ( /\ Returned("scrape_pasito_event")
      /\ ~IsNone(result.value)
      /\ HasTier1Link(args.links)
      /\ HasTier3Text(args.page.lines) )
        => LET link == FindLocationLinks(args.links)
           IN  Val(result.value).location_details =
                   ScrapeAddressFromLocationPage(link.location_url, link.venue_name,
                                                 args.venue_page).value

(***************************************************************************)
(* Claims about browser sessions.                                          *)
(***************************************************************************)
QuitCalls == Cardinality({i \in 1..Len(trace) : trace[i] \in {"quit", "quit_failed"}})

SessionCreated == Occurs("setup_driver") \/ Occurs("create")

\* C11: when main of pasito_event_scripts/create_fb_event.py or
\* get_page_content_with_browser is left, driver.quit() has been called
\* exactly once if a browser session was created and not at all otherwise,
\* whichever step succeeded, raised or called sys.exit.
C11_SessionQuitOnce ==
    (prog \in {"pasito_event_scripts.main", "get_page_content_with_browser"}
        /\ pc = "exited")
        => QuitCalls = (IF SessionCreated THEN 1 ELSE 0)

\* main is left on the sys.exit(1) of login_to_facebook, with the session
\* that was created quit.
C11_Witness ==
    /\ prog = "pasito_event_scripts.main" /\ pc = "exited"
    /\ Occurs("login_no_credentials")
    /\ result.raised = "SystemExit"
    /\ QuitCalls = 1 /\ driver = "quit"

(***************************************************************************)
(* Claims about the order of the steps of one event.                       *)
(***************************************************************************)
Precedes(first, second) ==
    \E i, j \in 1..Len(trace) : i < j /\ trace[i] = first /\ trace[j] = second

CreateCalled == Occurs("create_facebook_event") \/ Occurs("create_facebook_event_failed")

\* In main of pasito_event_scripts: create_facebook_event is called only
\* after scrape_pasito_event and then process_event_data have returned, and a
\* failed scrape or a failed processing leaves no call and exit code 1.
ScriptsPipelineOrdered ==
    prog = "pasito_event_scripts.main" =>
        /\ CreateCalled =>
              /\ Precedes("scrape_pasito_event", "process_event_data")
              /\ \A i \in 1..Len(trace) :
                    trace[i] \in {"create_facebook_event", "create_facebook_event_failed"}
                        => \E j \in 1..(i - 1) : trace[j] = "process_event_data"
        /\ (Occurs("scrape_pasito_event_failed") \/ Occurs("process_event_data_failed")) =>
              /\ ~CreateCalled
              /\ result.code = 1

\* In main of src/create_fb_event.py: the step that calls
\* create_facebook_event is reached only with the scraped data and the payload
\* of the event at hand, and an event is posted only by that step.
BatchPipelineOrdered ==
    /\ (prog = "main" /\ pc = "publish") =>
          /\ ~IsNone(scraped_data) /\ ~IsNone(final_payload)
          /\ Val(final_payload).name = Val(scraped_data).name
          /\ unique_event_ids[idx] \in attempted
    /\ (prog = "main" /\ pc \in {"loop", "translate", "details"}) => IsNone(final_payload)
    /\ (prog = "main" /\ pc = "loop") => IsNone(scraped_data)

\* C12: within one event, publishing is invoked only after scraping and then
\* processing of that event have both succeeded, in that order; when scraping
\* or processing fails there is no publish call for the event, and main of
\* pasito_event_scripts exits with code 1.
C12_PipelineOrdering ==
    /\ ScriptsPipelineOrdered
    /\ BatchPipelineOrdered
    /\ (prog = "main" /\ pc = "done") => Len(posted) <= Cardinality(attempted)

\* Processing of the scraped record has failed: main of pasito_event_scripts
\* has ended with exit code 1 and without a call of create_facebook_event.
C12_Witness ==
    /\ prog = "pasito_event_scripts.main" /\ pc = "exited"
    /\ Precedes("scrape_pasito_event", "process_event_data_failed")
    /\ ~CreateCalled
    /\ result.code = 1

(***************************************************************************)
(* Claims about preview mode and the credentials.                          *)
(***************************************************************************)
\* C13: in a run with --preview no cover photo is uploaded and no event is
\* posted, and the payload of every event that was scraped is printed.
C13_PreviewSkipsPublishing ==
    (prog = "main" /\ preview) =>
        /\ cover = "no_upload"
        /\ posted = <<>>
        /\ (pc \in {"done", "crashed"} /\ ~IsNone(scraped_data))
              => unique_event_ids[idx] \in Range(previewed)

\* C14: with --preview the events that were given are processed also
\* without credentials; without --preview missing credentials keep every
\* event from being processed.
C14_CredentialsOnlyForPublishing ==
    (prog = "main" /\ pc = "returned" /\ result.line = 642 /\ Len(result.events) > 0)
        => (~preview /\ attempted = {})

(***************************************************************************)
(* Claims about the requests of a batch.                                   *)
(***************************************************************************)
\* C15: in one batch run at most one event-creation request is sent for an
\* event ID, whether the request succeeds or fails.
C15_NoRetry ==
    prog = "main" =>
        \A i, j \in 1..Len(posted) : posted[i] = posted[j] => i = j

\* A batch of several events has been gone through, one request for each.
C15_Witness ==
    /\ prog = "main" /\ pc = "done"
    /\ Len(posted) >= 2
    /\ Len(posted) = Len(unique_event_ids)

(***************************************************************************)
(* Claims about the errors of time normalization.                          *)
(***************************************************************************)
MalformedTime(time) == Len(time) = 2 /\ ~BothWellFormed(time)

\* The scraped date was accepted by the operator and could not be converted.
MalformedDateUsed == {"date_found", "date"} \subseteq result.prompts /\ ~IsNone(args.date)

\* C16: a malformed time token, a malformed date token and an unknown zone
\* name each end get_event_details_from_user in an error outcome; none is
\* replaced by a prompt or a default, and no exception other than that error
\* leaves the function.
C16_NormalizationErrors ==
    Exited("get_event_details_from_user") =>
        /\ result.raised \in {"none", "NormalizationError"}
        /\ MalformedTime(args.time) => result.raised # "none"
        /\ MalformedDateUsed => result.raised # "none"
        /\ result.event_time_zone \notin KnownZones => result.raised # "none"

(***************************************************************************)
(* Claims about translate_description.                                     *)
(***************************************************************************)
\* C17: translate_description never raises; it returns the translation when
\* the text is not empty, the detected language is not English and the
\* translation succeeds, and the unchanged text when the language is English
\* or when detection or translation fails.
C17_BestEffortTranslation ==
    Exited("translate_description") =>
        /\ result.raised = "none"
        /\ result.value = IF Len(args.text) > 0 /\ args.how = "translated"
                          THEN Translated(args.text)
                          ELSE args.text

\* The translation of a text that is not empty has failed and the text came
\* back as it was.
C17_Witness ==
    /\ Exited("translate_description")
    /\ args.how = "translate_fails"
    /\ Len(args.text) > 0
    /\ result.value = args.text

(***************************************************************************)
(* Claims about the description process_event_data builds.                 *)
(***************************************************************************)
\* C18: the description of every record process_event_data returns is the
\* stripped original description, then the ticket paragraph when there is a
\* ticket URL that is not empty, then, last and exactly once, the source
\* paragraph with the source URL, with or without a ticket URL.
C18_SourceAttribution ==
    Returned("process_event_data") =>
        LET description == Val(result.value).description
            ticket == args.ticket_url \notin {NoneVal, Some("")}
            n == Len(description)
        IN  /\ n = (IF ticket THEN 3 ELSE 2)
            /\ description[1] = <<"text", Strip(Val(args.description))>>
            /\ ticket => description[2] = <<"tickets", Val(args.ticket_url)>>
            /\ description[n] = <<"source", Val(args.source_url)>>
            /\ \A i \in 1..(n - 1) : description[i][1] # "source"

\* A record with a padded description and an empty ticket URL was processed.
C18_Witness ==
    /\ Returned("process_event_data")
    /\ args.description = Some(" Join us ")
    /\ args.ticket_url = Some("")
    /\ Len(Val(result.value).description) = 2

(***************************************************************************)
(* Claims about the event name scrape_pasito_event takes from the page.    *)
(***************************************************************************)
\* The name of the title tag ('' without a title tag).
TitleTagName(page) == IF IsNone(page.title) THEN "" ELSE Val(page.title)

\* Line i is not blank and the line right after it holds the time emoji.
FollowedByTimeLine(lines, i) ==
    /\ i + 1 <= Len(lines)
    /\ Strip(lines[i]) # ""
    /\ ContainsClock(lines[i + 1])

\* C20: when some non-empty visible line is immediately followed by a line
\* that contains the time emoji (alone or with the date and time text), such
\* a line is the event name instead of the title-tag name; when there is no
\* such line the title-tag name is kept.
C20_InPageTitlePreference ==
    (Returned("scrape_pasito_event (line 428)") /\ ~IsNone(result.value)) =>
        LET lines == args.lines
            name == Val(result.value).name
        IN  IF \E i \in 1..Len(lines) : FollowedByTimeLine(lines, i)
            THEN \E i \in 1..Len(lines) :
                    FollowedByTimeLine(lines, i) /\ name = Strip(lines[i])
            ELSE name = TitleTagName(args)

(***************************************************************************)
(* Claims about the prompts of get_event_details_from_user.                *)
(***************************************************************************)
\* The time range, the date and the location were all scraped successfully.
AllScraped(a) ==
    /\ BothWellFormed(a.time)
    /\ ~IsNone(a.date) /\ Val(a.date).mon \in DOMAIN MonthNames
    /\ ~IsNone(a.loc)

\* C21: when the time range, the date and the location were all scraped, no
\* operator input is requested; a date prompt is issued only without a scraped
\* date, a start-time or duration prompt only without a scraped time range, a
\* location prompt only without a scraped location.
C21_PromptsOnlyForMissing ==
    Exited("get_event_details_from_user") =>
        /\ AllScraped(args) => result.prompts = {}
        /\ (result.prompts \cap {"date_found", "date"}) # {} => IsNone(args.date)
        /\ (result.prompts \cap {"start_time", "duration"}) # {}
               => ~BothWellFormed(args.time)
        /\ (result.prompts \cap {"is_online", "venue"}) # {} => IsNone(args.loc)

(***************************************************************************)
(* Claims about the two strategies of get_page_content_with_browser.       *)
(***************************************************************************)
StaticAttempted == Occurs("static_get") \/ Occurs("static_get_failed")

\* C22: the static GET is attempted if and only if the rendered strategy
\* failed (driver creation, navigation or the page read raised): it is never
\* attempted before such a failure, it has been attempted when the function
\* is left after one, and a timeout of the readiness wait with nothing else
\* failing leaves the static GET unattempted and the rendered document
\* returned.
C22_StaticOnlyAsFallback ==
    prog = "get_page_content_with_browser" =>
        /\ StaticAttempted => RenderedFailed
        /\ (pc = "exited" /\ RenderedFailed) => StaticAttempted
        /\ (pc = "exited" /\ Occurs("ready_timeout") /\ ~RenderedFailed
                /\ ~Occurs("quit_failed"))
               => /\ ~StaticAttempted
                  /\ result.raised = "none"
                  /\ result.html = Some("<html>")

\* The readiness wait timed out and the rendered document was returned.
C22_Witness ==
    /\ Exited("get_page_content_with_browser")
    /\ Occurs("ready_timeout") /\ Occurs("read") /\ Occurs("quit")
    /\ ~StaticAttempted
    /\ result.html = Some("<html>")

\* C23: on every rendered fetch there is one settle delay, it is applied
\* after the readiness signal has been awaited, and the rendered document is
\* read only after the delay.
C23_SettleAfterReadiness ==
    prog = "get_page_content_with_browser" =>
        LET awaited == {i \in 1..Len(trace) : trace[i] \in {"ready", "ready_timeout"}}
            slept == {i \in 1..Len(trace) : trace[i] = "sleep"}
            read == {i \in 1..Len(trace) : trace[i] \in {"read", "read_failed"}}
        IN  /\ Cardinality(slept) <= 1
            /\ \A r \in read : Cardinality(slept) = 1 /\ awaited # {}
            /\ \A r \in read : \A a \in awaited : \A z \in slept : a < z /\ z < r

(***************************************************************************)
(* Claims about the browser-driven create_facebook_event.                  *)
(***************************************************************************)
\* C24: whenever event creation fails at any step (navigation, the Create
\* Event button, filling the form, validation returning false),
\* create_facebook_event raises EventProcessingError after exactly one call
\* of handle_creation_error, refresh recovery or not; it returns normally
\* only when validate_event_creation returned true.
C24_CreationFailureRaises ==
    Exited("pasito_event_scripts.create_facebook_event") =>
        /\ args.fails_at # "none"
               => result.raised = "EventProcessingError" /\ result.handler_calls = 1
        /\ result.raised = "none" => args.fails_at = "none"

(***************************************************************************)
(* Claims about the address lookup of scrape_address_from_location_page.   *)
(***************************************************************************)
IsHeading(element) == element.name \in {"h1", "h2", "h3", "h4", "h5", "h6"}

\* The index of the first heading among the siblings (one past the end when
\* there is none).
NextHeading(siblings) ==
    IF \E i \in 1..Len(siblings) : IsHeading(siblings[i])
    THEN CHOOSE i \in 1..Len(siblings) :
            IsHeading(siblings[i]) /\ \A k \in 1..(i - 1) : ~IsHeading(siblings[k])
    ELSE Len(siblings) + 1

\* The non-empty texts of a list of elements, in order.
NonEmptyTexts(elements) ==
    LET kept == SelectSeq(elements, LAMBDA e : e.text # "")
    IN  [i \in 1..Len(kept) |-> kept[i].text]

IsPrefix(a, b) == Len(a) <= Len(b) /\ SubSeq(b, 1, Len(a)) = a

\* C25: the lines collected under the Address heading are texts of the
\* siblings that come before the next heading, in order (the text of the
\* terminating heading is not among them), and there are at most 11 of them.
C25_CollectsUpToNextHeading ==
    (Exited("scrape_address_from_location_page") /\ result.raised = "none") =>
        LET siblings == args.page.siblings
        IN  /\ IsPrefix(result.address_content,
                        NonEmptyTexts(SubSeq(siblings, 1, NextHeading(siblings) - 1)))
            /\ Len(result.address_content) <= SafetyLimit + 1

\* The place of a strategy in the chain.
StrategyRank(strategy) ==
    CASE strategy = "heading" -> 1
      [] strategy = "address_tag" -> 2
      [] strategy = "raw_regex" -> 3
      [] strategy = "visible_text_regex" -> 4

\* C26: the strategies run in the order heading lookup, address container,
\* raw-document regex, visible-text regex; a strategy runs only if none
\* before it has recovered a street; and once a strategy has recovered a
\* street, street, city, state and zip stay as that strategy left them.
C26_FallbackChainOrder ==
    (Exited("scrape_address_from_location_page") /\ result.raised = "none") =>
        LET ran == result.strategies
        IN  /\ \A i, j \in 1..Len(ran) :
                  i < j => /\ StrategyRank(ran[i].strategy) < StrategyRank(ran[j].strategy)
                           /\ ran[i].found.street = ""
            /\ \A i \in 1..Len(ran) :
                  ran[i].found.street # "" => result.found = ran[i].found
            /\ Len(ran) > 0 => ran[1].strategy = "heading"

\* The heading lookup recovered a street but no city while the raw-document
\* regex would have matched a complete address: nothing ran after it.
C26_Witness ==
    /\ Exited("scrape_address_from_location_page")
    /\ result.raised = "none"
    /\ Len(result.strategies) = 1
    /\ result.found.street # "" /\ result.found.city = ""
    /\ ~IsNone(args.page.raw_match)

(***************************************************************************)
(* Claims about the cover photo and the event IDs of main of               *)
(* src/create_fb_event.py.                                                 *)
(***************************************************************************)
UploadFailed == cover \in {"upload_failed", "file_missing", "upload_crashed"}

\* The upload is decided in a step taken before any event is scraped, and
\* never in a preview run.
UploadPrecedesScraping ==
    (prog = "main" /\ cover' # cover)
        => /\ pc = "start" /\ attempted = {} /\ attempted' = {}
           /\ ~preview'

\* After a failed upload main has ended and no event was scraped, printed or
\* posted; for a missing file upload_photo_for_event sends no request and
\* returns None.
FailedUploadEndsMain ==
    /\ (prog = "main" /\ UploadFailed)
           => /\ pc \in {"returned", "crashed"}
              /\ attempted = {} /\ posted = <<>> /\ previewed = <<>>
    /\ (Exited("upload_photo_for_event") /\ args.how = "file_missing")
           => ~result.sent /\ result.returned = "None" /\ result.raised = "none"

\* C27: with a cover path and without --preview the upload happens before
\* any event is scraped; a missing file sends no upload request and gives a
\* failure value; after any upload failure main ends without scraping or
\* publishing an event.
C27_CoverUploadGate == []FailedUploadEndsMain /\ [][UploadPrecedesScraping]_vars

\* main returned at line 663 because the cover file does not exist.
C27_Witness ==
    /\ prog = "main" /\ pc = "returned" /\ result.line = 663
    /\ cover = "file_missing" /\ ~preview
    /\ Len(result.events) > 0

\* The place of the first occurrence of id in ids.
FirstIndex(ids, id) == CHOOSE i \in 1..Len(ids) : ids[i] = id /\ \A k \in 1..(i - 1) : ids[k] # id

\* list holds each ID of given once, ordered by first occurrence in given.
FirstOccurrences(list, given) ==
    /\ Range(list) = Range(given)
    /\ \A i, j \in 1..Len(list) :
          i < j => /\ list[i] # list[j]
                   /\ FirstIndex(given, list[i]) < FirstIndex(given, list[j])

\* The IDs found on the series pages, in the order of the -s options.
SeriesIds(series) == IF IsNone(series) THEN <<>> ELSE Extend(Val(series))

\* The list of a run: each distinct ID once, the series IDs in the order they
\* were found, then the -e IDs that no series page gave, in the order given.
ListedOnceSeriesFirst ==
    Exited("main (event IDs)") =>
        LET fromSeries == SeriesIds(args.series)
            k == Cardinality(Range(fromSeries))
            list == result.value
        IN  /\ FirstOccurrences(SubSeq(list, 1, k), fromSeries)
            /\ FirstOccurrences(SubSeq(list, k + 1, Len(list)),
                                SelectSeq(args.events,
                                          LAMBDA id : id \notin Range(fromSeries)))
            /\ Len(list) = Cardinality(Range(fromSeries) \cup Range(args.events))

\* The loop of main takes the IDs of the list one after the other, each once;
\* with an empty list main returns and nothing is scraped or published.
ProcessedInListOrder ==
    prog = "main" =>
        /\ \A i, j \in 1..Len(unique_event_ids) :
              i < j => unique_event_ids[i] # unique_event_ids[j]
        /\ Cardinality(attempted) \in {idx - 1, idx} \cap (0..Len(unique_event_ids))
        /\ attempted = {unique_event_ids[i] : i \in 1..Cardinality(attempted)}
        /\ pc = "loop" => Len(unique_event_ids) > 0
        /\ (pc = "returned" /\ result.line \in {656, 675})
               => attempted = {} /\ posted = <<>> /\ previewed = <<>>

\* C28: for every combination of series results and listed IDs, main
\* processes each distinct event ID at most once, in order of first
\* occurrence, series IDs before listed IDs; with an empty list no event is
\* scraped or published.
C28_EventIdDeduplication == ListedOnceSeriesFirst /\ ProcessedInListOrder

\* Two series pages and -e e1,e2: e3, e1 from the series, then e2.
C28_Witness ==
    /\ Exited("main (event IDs)")
    /\ args.series = Some(<<<<"e3">>, <<"e1", "e3">>>>)
    /\ args.events = <<"e1", "e2">>
    /\ result.value = <<"e3", "e1", "e2">>

\* C29: in every Address scrape_address_from_location_page returns, street,
\* city and state are all non-empty, or street, city, state and zip are all
\* empty; a partly recovered address is not returned.
C29_AllOrNothingAddress ==
    (Returned("scrape_address_from_location_page") /\ ~IsNone(result.value)) =>
        LET place == Val(Val(result.value).place)
        IN  \/ place.street # "" /\ place.city # "" /\ place.state # ""
            \/ place.street = "" /\ place.city = "" /\ place.state = "" /\ place.zip = ""

\* A street was recovered without a city, and the Address returned holds the
\* venue name only.
C29_Witness ==
    /\ Returned("scrape_address_from_location_page")
    /\ result.found.street # "" /\ result.found.city = ""
    /\ ~IsNone(result.value)
    /\ Val(Val(result.value).place).street = ""

\* C30: in every result of get_event_details_from_user, event_time_zone is
\* the zone the start time was localized in, whether the operator entered
\* nothing, a known zone or an unknown one.
C30_ZoneConsistency ==
    Returned("get_event_details_from_user") => result.event_time_zone = result.tz

Next ==
    \/ Main
    \/ ScrapeEvent
    \/ TranslateEvent
    \/ DetailsOfEvent
    \/ PreviewEvent
    \/ PublishEvent
    \/ AllProcessed
    \/ CallGetEventDetails
    \/ CallCreateFacebookEvent
    \/ CallProcessEventData
    \/ CallTranslateDescription
    \/ CallUploadPhotoForEvent
    \/ CollectEventIds
    \/ CallBrowserCreateFacebookEvent
    \/ CallScrapePasitoEventOfMain
    \/ CallScrapeAddressFromLocationPage
    \/ CallScrapePasitoEvent
    \/ CallScraperScrapePasitoEvent
    \/ ScraperMain
    \/ ScraperMainEvent
    \/ ScraperMainDone
    \/ CreateDriver
    \/ Navigate
    \/ Settle
    \/ AwaitReady
    \/ ReadPage
    \/ StaticGet
    \/ QuitDriver
    \/ SetupDriver
    \/ Login
    \/ ScrapeForScripts
    \/ ProcessForScripts
    \/ CreateForScripts
    \/ ScriptsFinally

Spec == Init /\ [][Next]_vars

====
